---- MODULE Spec2Model ----
(***************************************************************************)
(* The sorted-set engine of blackwidow (src/redis_zsets.cc) as a state     *)
(* machine over the three column families of the underlying store:         *)
(*   meta  (handles_[0])  user key            -> version, count, timestamp *)
(*   data  (handles_[1])  key, version, member -> score                    *)
(*   score (handles_[2])  key, version, score, member -> ""                *)
(* Byte strings (user keys, members) are sequences of byte values; scores  *)
(* are integers standing for the doubles the engine stores.                *)
(***************************************************************************)
EXTENDS Integers, Sequences, FiniteSets, TLC

(***************************************************************************)
(* Bounds of the model.                                                    *)
(***************************************************************************)
\* the clock (seconds) runs from 1 to MaxTime
MaxTime == 2
\* no command is started whose version bump would pass MaxVersion
MaxVersion == 2
\* longest score_members / members / keys argument list
MaxLen == 2
MaxSize == 1

\* std::numeric_limits<double>::lowest() and ::max(), the seek sentinels
ScoreLowest == -1000
ScoreMax == 1000

\* user keys "k" and "l", members "a" and "b" as byte strings
KeyK == <<107>>
KeyL == <<108>>
Keys == {KeyK, KeyL}
MemberA == <<97>>
MemberB == <<98>>
Members == {MemberA, MemberB}
\* scores given to ZADD, increments given to ZINCRBY
Scores == {1, 2}
Increments == {-1, 1}
\* the scores the model lets a member reach
ScoreRange == 1..3
\* ttl arguments of EXPIRE and timestamps of EXPIREAT
Ttls == {0, 1}
Timestamps == 0..(MaxTime + 1)

NoMeta == [version |-> -1, count |-> -1, timestamp |-> -1]

\* no command is between its snapshot and its record lock
NoCall == [op |-> "none"]

VARIABLES now, meta, data, score, inflight,
          zscan_cursors_store, client, call_parity, uncompacted

vars == <<now, meta, data, score, inflight,
          zscan_cursors_store, client, call_parity, uncompacted>>

\* the cursor store of ZSCAN, the position of a scanning client, the parity
\* of the number of its calls and the store that no compaction has touched:
\* the commands of the sorted set leave them
scan_vars == <<zscan_cursors_store, client, call_parity, uncompacted>>

\* the committed content of the three column families
DB == [meta |-> meta, data |-> data, score |-> score]

(***************************************************************************)
(* Byte strings and the orders of the column families.                     *)
(***************************************************************************)
Min(a, b) == IF a <= b THEN a ELSE b
Max(a, b) == IF a >= b THEN a ELSE b

Sign(n) == IF n < 0 THEN -1 ELSE IF n > 0 THEN 1 ELSE 0

\* Slice::compare: memcmp over the common length, then the shorter first
RECURSIVE BytesCompareFrom(_, _, _)
BytesCompareFrom(a, b, i) ==
  IF i > Len(a) \/ i > Len(b) THEN Sign(Len(a) - Len(b))
  ELSE IF a[i] # b[i] THEN Sign(a[i] - b[i])
  ELSE BytesCompareFrom(a, b, i + 1)

BytesCompare(a, b) == BytesCompareFrom(a, b, 1)

\* EncodeFixed32: four bytes, least significant first
EncodeFixed32(n) ==
  <<n % 256, (n \div 256) % 256, (n \div 65536) % 256, (n \div 16777216) % 256>>

\* ZSetsMemberKey::Encode: ksize | key | version | member
ZSetsMemberKey(key, version, member) ==
  EncodeFixed32(Len(key)) \o key \o EncodeFixed32(version) \o member

\* a row of the data family: <<key, version, member, score>>
DataRow(key, version, member, s) == <<key, version, member, s>>
\* a row of the score family: <<key, version, score, member>>
ScoreRow(key, version, s, member) == <<key, version, s, member>>

\* the data family is ordered by the bytes of the encoded member key
DataKeyCompare(r1, r2) ==
  BytesCompare(ZSetsMemberKey(r1[1], r1[2], r1[3]),
               ZSetsMemberKey(r2[1], r2[2], r2[3]))

\* ZSetsScoreKeyComparatorImpl: user key, version, score (numeric), member
ScoreKeyCompare(r1, r2) ==
  IF BytesCompare(r1[1], r2[1]) # 0 THEN BytesCompare(r1[1], r2[1])
  ELSE IF r1[2] # r2[2] THEN Sign(r1[2] - r2[2])
  ELSE IF r1[3] # r2[3] THEN Sign(r1[3] - r2[3])
  ELSE BytesCompare(r1[4], r2[4])

\* the rows of S in the order of the score family
RECURSIVE ScoreSorted(_)
ScoreSorted(S) ==
  IF S = {} THEN <<>>
  ELSE LET m == CHOOSE x \in S : \A y \in S : ScoreKeyCompare(x, y) <= 0
       IN <<m>> \o ScoreSorted(S \ {m})

\* the rows of S in the order of the data family
RECURSIVE DataSorted(_)
DataSorted(S) ==
  IF S = {} THEN <<>>
  ELSE LET m == CHOOSE x \in S : \A y \in S : DataKeyCompare(x, y) <= 0
       IN <<m>> \o DataSorted(S \ {m})

Reverse(s) == [i \in 1..Len(s) |-> s[Len(s) + 1 - i]]

\* the first n elements of s
Take(s, n) == SubSeq(s, 1, Min(n, Len(s)))

(***************************************************************************)
(* The meta value (ParsedZSetsMetaValue).                                  *)
(***************************************************************************)
\* timestamp set and not in the future
IsStale(m, t) == m.timestamp # 0 /\ m.timestamp <= t

\* the next version: the clock, or one more than the version held
UpdateVersion(m, t) ==
  [m EXCEPT !.version = IF m.version >= t THEN m.version + 1 ELSE t]

\* count and timestamp zeroed, version bumped
InitialMetaValue(m, t) ==
  UpdateVersion([m EXCEPT !.count = 0, !.timestamp = 0], t)

ModifyCount(m, delta) == [m EXCEPT !.count = m.count + delta]

\* ZSetsMetaValue(count): a new value, version and timestamp 0
ZSetsMetaValue(count) == [version |-> 0, count |-> count, timestamp |-> 0]

(***************************************************************************)
(* The store: point reads, iterators, write batches.                       *)
(***************************************************************************)
\* db_->Get(handles_[0], key)
GetMeta(db, key) == db.meta[key]

HasMeta(db, key) == db.meta[key] # NoMeta

\* db_->Get(handles_[1], member key): the rows holding that key (none or one)
GetData(db, key, version, member) ==
  {r \in db.data : r[1] = key /\ r[2] = version /\ r[3] = member}

\* iter->Seek(target) on the score family, then Next: rows >= target in order
SeekScore(db, target) ==
  ScoreSorted({r \in db.score : ScoreKeyCompare(r, target) >= 0})

\* iter->SeekForPrev(target) on the score family, then Prev
SeekForPrevScore(db, target) ==
  Reverse(ScoreSorted({r \in db.score : ScoreKeyCompare(r, target) <= 0}))

\* iter->Seek(target) on the data family, then Next
SeekData(db, target) ==
  DataSorted({r \in db.data : DataKeyCompare(r, target) >= 0})

\* batch entries
PutMeta(key, m) == [cf |-> 0, del |-> FALSE, row |-> <<key, m>>]
PutData(key, version, member, s) ==
  [cf |-> 1, del |-> FALSE, row |-> DataRow(key, version, member, s)]
DeleteData(key, version, member) ==
  [cf |-> 1, del |-> TRUE, row |-> DataRow(key, version, member, 0)]
PutScore(key, version, s, member) ==
  [cf |-> 2, del |-> FALSE, row |-> ScoreRow(key, version, s, member)]
DeleteScore(key, version, s, member) ==
  [cf |-> 2, del |-> TRUE, row |-> ScoreRow(key, version, s, member)]

\* one entry of a batch applied to the store
ApplyEntry(db, e) ==
  IF e.cf = 0 THEN [db EXCEPT !.meta[e.row[1]] = e.row[2]]
  ELSE IF e.cf = 1 THEN
    LET rest == {r \in db.data :
                   ~(r[1] = e.row[1] /\ r[2] = e.row[2] /\ r[3] = e.row[3])}
    IN [db EXCEPT !.data = IF e.del THEN rest ELSE rest \cup {e.row}]
  ELSE [db EXCEPT !.score = IF e.del THEN db.score \ {e.row}
                            ELSE db.score \cup {e.row}]

\* db_->Write(batch): the entries in order, as one atomic change
RECURSIVE Write(_, _)
Write(db, batch) ==
  IF batch = <<>> THEN db
  ELSE Write(ApplyEntry(db, Head(batch)), Tail(batch))

(***************************************************************************)
(* Results of a command: the batch it hands to db_->Write (written is      *)
(* FALSE when the command returns before it reaches db_->Write), the       *)
(* status it returns and its output parameter.                             *)
(***************************************************************************)
Result(batch, written, status, ret) ==
  [batch |-> batch, written |-> written, status |-> status, ret |-> ret]

\* the store after the command
Commit(db, res) == IF res.written THEN Write(db, res.batch) ELSE db

\* variant: the last occurrence of every member is kept
FilterScoreMembers_KeepsLast(sms, unique) == LET keep == {i \in 1..Len(sms) : \A j \in (i + 1)..Len(sms) : sms[j].member # sms[i].member} IN [n \in 1..Cardinality(keep) |-> sms[CHOOSE i \in keep : Cardinality({j \in keep : j <= i}) = n]]

\* the first occurrence of every member of a score_members list
RECURSIVE FilterScoreMembers(_, _)
FilterScoreMembers(sms, unique) ==
  IF sms = <<>> THEN <<>>
  ELSE IF Head(sms).member \in unique THEN FilterScoreMembers(Tail(sms), unique)
  ELSE <<Head(sms)>>
       \o FilterScoreMembers(Tail(sms), unique \cup {Head(sms).member})

\* variant: a member listed twice stays listed twice
FilterMembers_KeepsDuplicates(members, unique) == members

\* the first occurrence of every member of a members list
RECURSIVE FilterMembers(_, _)
FilterMembers(members, unique) ==
  IF members = <<>> THEN <<>>
  ELSE IF Head(members) \in unique THEN FilterMembers(Tail(members), unique)
  ELSE <<Head(members)>>
       \o FilterMembers(Tail(members), unique \cup {Head(members)})

\* the score held by the one row of a point read
ScoreOf(rows) == (CHOOSE r \in rows : TRUE)[4]

(***************************************************************************)
(* ZAdd                                                                    *)
(***************************************************************************)
\* variant of the loop: a member is rewritten also when its score is the same
RECURSIVE ZAddLoop_Rewrites(_, _, _, _, _, _, _)
ZAddLoop_Rewrites(db, key, version, is_stale, sms, batch, cnt) ==
  IF sms = <<>> THEN [batch |-> batch, cnt |-> cnt]
  ELSE
    LET sm == Head(sms)
        old == IF is_stale THEN {} ELSE GetData(db, key, version, sm.member)
        not_found == old = {}
    IN ZAddLoop_Rewrites(db, key, version, is_stale, Tail(sms),
         batch
         \o (IF not_found THEN <<>>
             ELSE <<DeleteScore(key, version, ScoreOf(old), sm.member)>>)
         \o <<PutData(key, version, sm.member, sm.score),
              PutScore(key, version, sm.score, sm.member)>>,
         IF not_found THEN cnt + 1 ELSE cnt)

\* the loop over filtered_score_members when the meta row exists
RECURSIVE ZAddLoop(_, _, _, _, _, _, _)
ZAddLoop(db, key, version, is_stale, sms, batch, cnt) ==
  IF sms = <<>> THEN [batch |-> batch, cnt |-> cnt]
  ELSE
    LET sm == Head(sms)
        old == IF is_stale THEN {} ELSE GetData(db, key, version, sm.member)
        not_found == old = {}
    IN IF ~not_found /\ ScoreOf(old) = sm.score
       THEN ZAddLoop(db, key, version, is_stale, Tail(sms), batch, cnt)
       ELSE ZAddLoop(db, key, version, is_stale, Tail(sms),
              batch
              \o (IF not_found THEN <<>>
                  ELSE <<DeleteScore(key, version, ScoreOf(old), sm.member)>>)
              \o <<PutData(key, version, sm.member, sm.score),
                   PutScore(key, version, sm.score, sm.member)>>,
              IF not_found THEN cnt + 1 ELSE cnt)

\* the puts of the branch that creates the meta row
RECURSIVE ZAddFresh(_, _, _)
ZAddFresh(key, version, sms) ==
  IF sms = <<>> THEN <<>>
  ELSE <<PutData(key, version, Head(sms).member, Head(sms).score),
         PutScore(key, version, Head(sms).score, Head(sms).member)>>
       \o ZAddFresh(key, version, Tail(sms))

\* variant: every member of the call is counted as new
ZAdd_CountsAll(db, t, key, score_members) ==
  LET filtered == FilterScoreMembers(score_members, {})
  IN IF HasMeta(db, key) THEN
       LET parsed == GetMeta(db, key)
           is_stale == IsStale(parsed, t)
           m0 == IF is_stale THEN InitialMetaValue(parsed, t) ELSE parsed
           loop == ZAddLoop(db, key, m0.version, is_stale, filtered, <<>>, 0)
       IN Result(loop.batch \o <<PutMeta(key, ModifyCount(m0, Len(filtered)))>>,
                 TRUE, "OK", Len(filtered))
     ELSE
       LET m0 == UpdateVersion(ZSetsMetaValue(Len(filtered)), t)
       IN Result(<<PutMeta(key, m0)>> \o ZAddFresh(key, m0.version, filtered),
                 TRUE, "OK", Len(filtered))

ZAdd(db, t, key, score_members) ==
  LET filtered == FilterScoreMembers(score_members, {})
  IN IF HasMeta(db, key) THEN
       LET parsed == GetMeta(db, key)
           is_stale == IsStale(parsed, t)
           m0 == IF is_stale THEN InitialMetaValue(parsed, t) ELSE parsed
           loop == ZAddLoop(db, key, m0.version, is_stale, filtered, <<>>, 0)
       IN Result(loop.batch \o <<PutMeta(key, ModifyCount(m0, loop.cnt))>>,
                 TRUE, "OK", loop.cnt)
     ELSE
       LET m0 == UpdateVersion(ZSetsMetaValue(Len(filtered)), t)
       IN Result(<<PutMeta(key, m0)>> \o ZAddFresh(key, m0.version, filtered),
                 TRUE, "OK", Len(filtered))

(***************************************************************************)
(* ZIncrby                                                                 *)
(***************************************************************************)
\* variant: the score row of the old score is left in place
ZIncrby_KeepsOldScoreRow(db, t, key, member, increment) ==
  IF HasMeta(db, key) THEN
    LET parsed == GetMeta(db, key)
        m0 == IF IsStale(parsed, t) THEN InitialMetaValue(parsed, t) ELSE parsed
        version == m0.version
        old == GetData(db, key, version, member)
        sc == IF old # {} THEN ScoreOf(old) + increment ELSE increment
        first == IF old # {} THEN <<>>
                 ELSE <<PutMeta(key, ModifyCount(m0, 1))>>
    IN Result(first \o <<PutData(key, version, member, sc),
                         PutScore(key, version, sc, member)>>,
              TRUE, "OK", sc)
  ELSE
    LET m0 == UpdateVersion(ZSetsMetaValue(1), t)
    IN Result(<<PutMeta(key, m0),
                PutData(key, m0.version, member, increment),
                PutScore(key, m0.version, increment, member)>>,
              TRUE, "OK", increment)

\* variant: the increment of a live member starts from zero
ZIncrby_ForgetsOldScore(db, t, key, member, increment) ==
  IF HasMeta(db, key) THEN
    LET parsed == GetMeta(db, key)
        m0 == IF IsStale(parsed, t) THEN InitialMetaValue(parsed, t) ELSE parsed
        version == m0.version
        old == GetData(db, key, version, member)
        sc == increment
        first == IF old # {}
                 THEN <<DeleteScore(key, version, ScoreOf(old), member)>>
                 ELSE <<PutMeta(key, ModifyCount(m0, 1))>>
    IN Result(first \o <<PutData(key, version, member, sc),
                         PutScore(key, version, sc, member)>>,
              TRUE, "OK", sc)
  ELSE
    LET m0 == UpdateVersion(ZSetsMetaValue(1), t)
    IN Result(<<PutMeta(key, m0),
                PutData(key, m0.version, member, increment),
                PutScore(key, m0.version, increment, member)>>,
              TRUE, "OK", increment)

ZIncrby(db, t, key, member, increment) ==
  IF HasMeta(db, key) THEN
    LET parsed == GetMeta(db, key)
        m0 == IF IsStale(parsed, t) THEN InitialMetaValue(parsed, t) ELSE parsed
        version == m0.version
        old == GetData(db, key, version, member)
        sc == IF old # {} THEN ScoreOf(old) + increment ELSE increment
        first == IF old # {}
                 THEN <<DeleteScore(key, version, ScoreOf(old), member)>>
                 ELSE <<PutMeta(key, ModifyCount(m0, 1))>>
    IN Result(first \o <<PutData(key, version, member, sc),
                         PutScore(key, version, sc, member)>>,
              TRUE, "OK", sc)
  ELSE
    LET m0 == UpdateVersion(ZSetsMetaValue(1), t)
    IN Result(<<PutMeta(key, m0),
                PutData(key, m0.version, member, increment),
                PutScore(key, m0.version, increment, member)>>,
              TRUE, "OK", increment)

(***************************************************************************)
(* ZRem                                                                    *)
(***************************************************************************)
RECURSIVE ZRemLoop(_, _, _, _, _, _)
ZRemLoop(db, key, version, members, batch, del_cnt) ==
  IF members = <<>> THEN [batch |-> batch, cnt |-> del_cnt]
  ELSE
    LET member == Head(members)
        old == GetData(db, key, version, member)
    IN IF old # {}
       THEN ZRemLoop(db, key, version, Tail(members),
              batch \o <<DeleteData(key, version, member),
                         DeleteScore(key, version, ScoreOf(old), member)>>,
              del_cnt + 1)
       ELSE ZRemLoop(db, key, version, Tail(members), batch, del_cnt)

\* variant: the removed members stay in the count
ZRem_KeepsCount(db, t, key, members) ==
  LET filtered == FilterMembers(members, {})
  IN IF ~HasMeta(db, key) THEN Result(<<>>, FALSE, "NotFound", 0)
     ELSE
       LET parsed == GetMeta(db, key)
       IN IF IsStale(parsed, t) THEN Result(<<>>, FALSE, "NotFound", 0)
          ELSE IF parsed.count = 0 THEN Result(<<>>, FALSE, "NotFound", 0)
          ELSE
            LET loop == ZRemLoop(db, key, parsed.version, filtered, <<>>, 0)
            IN Result(loop.batch \o <<PutMeta(key, parsed)>>,
                      TRUE, "OK", loop.cnt)

ZRem(db, t, key, members) ==
  LET filtered == FilterMembers(members, {})
  IN IF ~HasMeta(db, key) THEN Result(<<>>, FALSE, "NotFound", 0)
     ELSE
       LET parsed == GetMeta(db, key)
       IN IF IsStale(parsed, t) THEN Result(<<>>, FALSE, "NotFound", 0)
          ELSE IF parsed.count = 0 THEN Result(<<>>, FALSE, "NotFound", 0)
          ELSE
            LET loop == ZRemLoop(db, key, parsed.version, filtered, <<>>, 0)
            IN Result(loop.batch
                      \o <<PutMeta(key, ModifyCount(parsed, -loop.cnt))>>,
                      TRUE, "OK", loop.cnt)

(***************************************************************************)
(* Range bounds                                                            *)
(***************************************************************************)
\* variant: the left bound is always inclusive
LeftPass_AlwaysClosed(min, left_close, s) == min <= s

\* left_pass / right_pass of the score scans
LeftPass(min, left_close, s) ==
  (left_close /\ min <= s) \/ (~left_close /\ min < s)

RightPass(max, right_close, s) ==
  (right_close /\ s <= max) \/ (~right_close /\ s < max)

\* the special member bounds "-" and "+"
LexMinus == <<45>>
LexPlus == <<43>>

\* variant: "+" is an ordinary member as a right bound
LexRightPass_PlusIsBytes(max, right_close, member) ==
  \/ (right_close /\ BytesCompare(max, member) >= 0)
  \/ (~right_close /\ BytesCompare(max, member) > 0)

\* left_pass / right_pass of the lex scans
LexLeftPass(min, left_close, member) ==
  \/ BytesCompare(min, LexMinus) = 0
  \/ (left_close /\ BytesCompare(min, member) <= 0)
  \/ (~left_close /\ BytesCompare(min, member) < 0)

LexRightPass(max, right_close, member) ==
  \/ BytesCompare(max, LexPlus) = 0
  \/ (right_close /\ BytesCompare(max, member) >= 0)
  \/ (~right_close /\ BytesCompare(max, member) > 0)

\* the rows a score scan visits before it breaks on right_pass = false
RECURSIVE UntilRightFail(_, _, _)
UntilRightFail(rows, max, right_close) ==
  IF rows = <<>> THEN <<>>
  ELSE IF ~RightPass(max, right_close, Head(rows)[3]) THEN <<>>
  ELSE <<Head(rows)>> \o UntilRightFail(Tail(rows), max, right_close)

\* the rows a reverse score scan visits before it breaks on left_pass = false
RECURSIVE UntilLeftFail(_, _, _)
UntilLeftFail(rows, min, left_close) ==
  IF rows = <<>> THEN <<>>
  ELSE IF ~LeftPass(min, left_close, Head(rows)[3]) THEN <<>>
  ELSE <<Head(rows)>> \o UntilLeftFail(Tail(rows), min, left_close)

\* the rows a lex scan visits before it breaks on right_pass = false
RECURSIVE LexUntilRightFail(_, _, _)
LexUntilRightFail(rows, max, right_close) ==
  IF rows = <<>> THEN <<>>
  ELSE IF ~LexRightPass(max, right_close, Head(rows)[3]) THEN <<>>
  ELSE <<Head(rows)>> \o LexUntilRightFail(Tail(rows), max, right_close)

\* the rows with left_pass /\ right_pass among the visited ones
ScorePassing(rows, min, max, left_close, right_close) ==
  SelectSeq(UntilRightFail(rows, max, right_close),
            LAMBDA r : LeftPass(min, left_close, r[3]))

LexPassing(rows, min, max, left_close, right_close) ==
  SelectSeq(LexUntilRightFail(rows, max, right_close),
            LAMBDA r : LexLeftPass(min, left_close, r[3]))

\* variant: a negative start is taken for the first position
StartIndex_NegativeIsFirst(start, count) ==
  IF start >= 0 THEN start ELSE 0

\* start_index and stop_index of the rank commands
StartIndex(start, count) ==
  LET i == IF start >= 0 THEN start ELSE count + start
  IN IF i <= 0 THEN 0 ELSE i

StopIndex(stop, count) ==
  LET i == IF stop >= 0 THEN stop ELSE count + stop
  IN IF i >= count THEN count - 1 ELSE i

\* the score rows reached from the first row of (key, version), count of them
ScoreScan(db, key, version, count) ==
  Take(SeekScore(db, ScoreRow(key, version, ScoreLowest, <<>>)), count)

\* the data rows reached from the first row of (key, version), count of them
DataScan(db, key, version, count) ==
  Take(SeekData(db, DataRow(key, version, <<>>, 0)), count)

\* rows[from .. ] of a scan (indices from 0)
FromIndex(rows, start_index) ==
  IF start_index >= Len(rows) THEN <<>>
  ELSE SubSeq(rows, start_index + 1, Len(rows))

(***************************************************************************)
(* ZRemrangebyrank, ZRemrangebyscore, ZRemrangebylex                       *)
(***************************************************************************)
\* variant: only the score rows are deleted
RECURSIVE DeleteScoreRows_KeepsDataRows(_, _, _)
DeleteScoreRows_KeepsDataRows(key, version, rows) ==
  IF rows = <<>> THEN <<>>
  ELSE <<[cf |-> 2, del |-> TRUE, row |-> Head(rows)]>>
       \o DeleteScoreRows_KeepsDataRows(key, version, Tail(rows))

\* the deletes for the score rows a scan selected
RECURSIVE DeleteScoreRows(_, _, _)
DeleteScoreRows(key, version, rows) ==
  IF rows = <<>> THEN <<>>
  ELSE <<DeleteData(key, version, Head(rows)[4]),
         [cf |-> 2, del |-> TRUE, row |-> Head(rows)]>>
       \o DeleteScoreRows(key, version, Tail(rows))

\* the deletes for the data rows a scan selected
RECURSIVE DeleteDataRows(_, _, _)
DeleteDataRows(key, version, rows) ==
  IF rows = <<>> THEN <<>>
  ELSE <<[cf |-> 1, del |-> TRUE, row |-> Head(rows)],
         DeleteScore(key, version, Head(rows)[4], Head(rows)[3])>>
       \o DeleteDataRows(key, version, Tail(rows))

ZRemrangebyrank(db, t, key, start, stop) ==
  IF ~HasMeta(db, key) THEN Result(<<>>, FALSE, "NotFound", 0)
  ELSE
    LET parsed == GetMeta(db, key)
    IN IF IsStale(parsed, t) THEN Result(<<>>, FALSE, "NotFound", 0)
       ELSE IF parsed.count = 0 THEN Result(<<>>, FALSE, "NotFound", 0)
       ELSE
         LET start_index == StartIndex(start, parsed.count)
             stop_index == StopIndex(stop, parsed.count)
             rows == FromIndex(ScoreScan(db, key, parsed.version, stop_index + 1),
                               start_index)
         IN Result(DeleteScoreRows(key, parsed.version, rows)
                   \o <<PutMeta(key, ModifyCount(parsed, -Len(rows)))>>,
                   TRUE, "OK", Len(rows))

ZRemrangebyscore(db, t, key, min, max, left_close, right_close) ==
  IF ~HasMeta(db, key) THEN Result(<<>>, FALSE, "NotFound", 0)
  ELSE
    LET parsed == GetMeta(db, key)
    IN IF IsStale(parsed, t) THEN Result(<<>>, FALSE, "NotFound", 0)
       ELSE IF parsed.count = 0 THEN Result(<<>>, FALSE, "NotFound", 0)
       ELSE
         LET rows == ScorePassing(ScoreScan(db, key, parsed.version, parsed.count),
                                  min, max, left_close, right_close)
         IN Result(DeleteScoreRows(key, parsed.version, rows)
                   \o <<PutMeta(key, ModifyCount(parsed, -Len(rows)))>>,
                   TRUE, "OK", Len(rows))

\* db is the snapshot the command took before it waited for the record lock
ZRemrangebylex(db, t, key, min, max, left_close, right_close) ==
  IF ~HasMeta(db, key) THEN Result(<<>>, FALSE, "NotFound", 0)
  ELSE
    LET parsed == GetMeta(db, key)
    IN IF IsStale(parsed, t) \/ parsed.count = 0
       THEN Result(<<>>, FALSE, "NotFound", 0)
       ELSE
         LET rows == LexPassing(DataScan(db, key, parsed.version, parsed.count),
                                min, max, left_close, right_close)
         IN Result(DeleteDataRows(key, parsed.version, rows)
                   \o (IF Len(rows) > 0
                       THEN <<PutMeta(key, ModifyCount(parsed, -Len(rows)))>>
                       ELSE <<>>),
                   TRUE, "OK", Len(rows))

(***************************************************************************)
(* Del, Expire, Expireat, Persist                                          *)
(***************************************************************************)
\* variant: the count is zeroed under the version the key had
Del_KeepsVersion(db, t, key) ==
  IF ~HasMeta(db, key) THEN Result(<<>>, FALSE, "NotFound", 0)
  ELSE
    LET parsed == GetMeta(db, key)
    IN IF IsStale(parsed, t) THEN Result(<<>>, FALSE, "NotFound", 0)
       ELSE IF parsed.count = 0 THEN Result(<<>>, FALSE, "NotFound", 0)
       ELSE Result(<<PutMeta(key, [parsed EXCEPT !.count = 0,
                                                 !.timestamp = 0])>>,
                   TRUE, "OK", 0)

Del(db, t, key) ==
  IF ~HasMeta(db, key) THEN Result(<<>>, FALSE, "NotFound", 0)
  ELSE
    LET parsed == GetMeta(db, key)
    IN IF IsStale(parsed, t) THEN Result(<<>>, FALSE, "NotFound", 0)
       ELSE IF parsed.count = 0 THEN Result(<<>>, FALSE, "NotFound", 0)
       ELSE Result(<<PutMeta(key, InitialMetaValue(parsed, t))>>, TRUE, "OK", 0)

\* SetRelativeTimestamp: the clock plus ttl
SetRelativeTimestamp(m, t, ttl) == [m EXCEPT !.timestamp = t + ttl]

\* variant: a ttl <= 0 is set as a relative timestamp too
Expire_AlwaysRelative(db, t, key, ttl) ==
  IF ~HasMeta(db, key) \/ IsStale(GetMeta(db, key), t)
  THEN Result(<<>>, FALSE, "NotFound", 0)
  ELSE Result(<<PutMeta(key, SetRelativeTimestamp(GetMeta(db, key), t, ttl))>>,
              TRUE, "OK", 0)

Expire(db, t, key, ttl) ==
  IF ~HasMeta(db, key) THEN Result(<<>>, FALSE, "NotFound", 0)
  ELSE
    LET parsed == GetMeta(db, key)
    IN IF IsStale(parsed, t) THEN Result(<<>>, FALSE, "NotFound", 0)
       ELSE Result(<<PutMeta(key, IF ttl > 0
                                  THEN SetRelativeTimestamp(parsed, t, ttl)
                                  ELSE InitialMetaValue(parsed, t))>>,
                   TRUE, "OK", 0)

Expireat(db, t, key, timestamp) ==
  IF ~HasMeta(db, key) THEN Result(<<>>, FALSE, "NotFound", 0)
  ELSE
    LET parsed == GetMeta(db, key)
    IN IF IsStale(parsed, t) THEN Result(<<>>, FALSE, "NotFound", 0)
       ELSE Result(<<PutMeta(key, [parsed EXCEPT !.timestamp = timestamp])>>,
                   TRUE, "OK", 0)

Persist(db, t, key) ==
  IF ~HasMeta(db, key) THEN Result(<<>>, FALSE, "NotFound", 0)
  ELSE
    LET parsed == GetMeta(db, key)
    IN IF IsStale(parsed, t) THEN Result(<<>>, FALSE, "NotFound", 0)
       ELSE IF parsed.timestamp = 0 THEN Result(<<>>, FALSE, "NotFound", 0)
       ELSE Result(<<PutMeta(key, [parsed EXCEPT !.timestamp = 0])>>,
                   TRUE, "OK", 0)

(***************************************************************************)
(* ZUnionstore, ZInterstore                                                *)
(***************************************************************************)
\* variant: the scores are summed whatever agg is
Aggregate_AlwaysSum(agg, sc, weighted) == sc + weighted

\* SUM, MIN or MAX of the score collected so far and a weighted score
Aggregate(agg, sc, weighted) ==
  IF agg = "SUM" THEN sc + weighted
  ELSE IF agg = "MIN" THEN Min(sc, weighted)
  ELSE Max(sc, weighted)

\* weights[idx] when given, else 1 (idx from 0)
WeightAt(weights, idx) == IF idx < Len(weights) THEN weights[idx + 1] ELSE 1

\* (score == -0.0) ? 0 : score
NormalizeZero(sc) == IF sc = 0 THEN 0 ELSE sc

\* the rows of one source folded into member_score_map
RECURSIVE UnionRows(_, _, _, _)
UnionRows(map, rows, weight, agg) ==
  IF rows = <<>> THEN map
  ELSE
    LET member == Head(rows)[4]
        weighted == weight * Head(rows)[3]
        sc == IF member \in DOMAIN map
              THEN Aggregate(agg, map[member], weighted)
              ELSE weighted
        next == [m \in DOMAIN map \cup {member} |->
                   IF m = member THEN NormalizeZero(sc) ELSE map[m]]
    IN UnionRows(next, Tail(rows), weight, agg)

\* the loop over the source keys (idx from 0)
RECURSIVE UnionKeys(_, _, _, _, _, _, _)
UnionKeys(db, t, keys, weights, agg, idx, map) ==
  IF idx >= Len(keys) THEN map
  ELSE
    LET key == keys[idx + 1]
        parsed == GetMeta(db, key)
    IN IF HasMeta(db, key) /\ ~IsStale(parsed, t) /\ parsed.count # 0
       THEN UnionKeys(db, t, keys, weights, agg, idx + 1,
              UnionRows(map, ScoreScan(db, key, parsed.version, parsed.count),
                        WeightAt(weights, idx), agg))
       ELSE UnionKeys(db, t, keys, weights, agg, idx + 1, map)

\* the meta row and the rows of the overwritten destination
StoreBatch(db, t, destination, map) ==
  LET size == Cardinality(DOMAIN map)
      m0 == IF HasMeta(db, destination)
            THEN [InitialMetaValue(GetMeta(db, destination), t)
                    EXCEPT !.count = size]
            ELSE UpdateVersion(ZSetsMetaValue(size), t)
      members == DataSorted({DataRow(destination, m0.version, m, map[m]) :
                               m \in DOMAIN map})
  IN <<PutMeta(destination, m0)>>
     \o ZAddFresh(destination, m0.version,
          [i \in 1..Len(members) |->
             [score |-> members[i][4], member |-> members[i][3]]])

\* db is the snapshot the command took before it waited for the record lock
ZUnionstore(db, t, destination, keys, weights, agg) ==
  LET map == UnionKeys(db, t, keys, weights, agg, 0, <<>>)
  IN Result(StoreBatch(db, t, destination, map), TRUE, "OK",
            Cardinality(DOMAIN map))

\* variant: a stale source is taken for a live one
HaveInvalidZsets_IgnoresStale(db, t, keys) == \E i \in 1..Len(keys) : ~HasMeta(db, keys[i]) \/ GetMeta(db, keys[i]).count = 0

\* have_invalid_zsets: a source that is missing, stale or empty
HaveInvalidZsets(db, t, keys) ==
  \E i \in 1..Len(keys) :
    \/ ~HasMeta(db, keys[i])
    \/ IsStale(GetMeta(db, keys[i]), t)
    \/ GetMeta(db, keys[i]).count = 0

\* one candidate of the first set probed in the other sets (idx from 1)
RECURSIVE InterProbe(_, _, _, _, _, _, _)
InterProbe(db, keys, weights, agg, member, idx, sc) ==
  IF idx >= Len(keys) THEN [reliable |-> TRUE, score |-> sc]
  ELSE
    LET key == keys[idx + 1]
        rows == GetData(db, key, GetMeta(db, key).version, member)
    IN IF rows = {} THEN [reliable |-> FALSE, score |-> sc]
       ELSE InterProbe(db, keys, weights, agg, member, idx + 1,
              Aggregate(agg, sc, WeightAt(weights, idx) * ScoreOf(rows)))

\* final_score_members
RECURSIVE InterRows(_, _, _, _, _)
InterRows(db, keys, weights, agg, rows) ==
  IF rows = <<>> THEN <<>>
  ELSE
    LET probe == InterProbe(db, keys, weights, agg, Head(rows)[4], 1,
                   Head(rows)[3] * (IF Len(weights) > 0 THEN weights[1] ELSE 1))
    IN (IF probe.reliable
        THEN <<[score |-> probe.score, member |-> Head(rows)[4]]>>
        ELSE <<>>)
       \o InterRows(db, keys, weights, agg, Tail(rows))

\* variant: an empty key list stores the empty result instead of failing
ZInterstore_EmptyKeysStore(db, t, destination, keys, weights, agg) ==
  LET final == IF Len(keys) <= 0 \/ HaveInvalidZsets(db, t, keys) THEN <<>>
               ELSE InterRows(db, keys, weights, agg,
                      ScoreScan(db, keys[1], GetMeta(db, keys[1]).version,
                                GetMeta(db, keys[1]).count))
      m0 == IF HasMeta(db, destination)
            THEN [InitialMetaValue(GetMeta(db, destination), t)
                    EXCEPT !.count = Len(final)]
            ELSE UpdateVersion(ZSetsMetaValue(Len(final)), t)
  IN Result(<<PutMeta(destination, m0)>>
            \o ZAddFresh(destination, m0.version, final),
            TRUE, "OK", Len(final))

\* db is the snapshot the command took before it waited for the record lock
ZInterstore(db, t, destination, keys, weights, agg) ==
  IF Len(keys) <= 0 THEN Result(<<>>, FALSE, "Corruption", 0)
  ELSE
    LET final == IF HaveInvalidZsets(db, t, keys) THEN <<>>
                 ELSE InterRows(db, keys, weights, agg,
                        ScoreScan(db, keys[1], GetMeta(db, keys[1]).version,
                                  GetMeta(db, keys[1]).count))
        m0 == IF HasMeta(db, destination)
              THEN [InitialMetaValue(GetMeta(db, destination), t)
                      EXCEPT !.count = Len(final)]
              ELSE UpdateVersion(ZSetsMetaValue(Len(final)), t)
    IN Result(<<PutMeta(destination, m0)>>
              \o ZAddFresh(destination, m0.version, final),
              TRUE, "OK", Len(final))

(***************************************************************************)
(* The reading commands: status and output of each, read from db (the      *)
(* snapshot the command took on entry).                                    *)
(***************************************************************************)
Reply(status, ret) == [status |-> status, ret |-> ret]

\* the meta row exists, is not stale and counts at least one member
IsLive(db, t, key) ==
  HasMeta(db, key) /\ ~IsStale(GetMeta(db, key), t) /\ GetMeta(db, key).count # 0

\* ScoreMember values of score rows
RECURSIVE ScoreMembersOf(_)
ScoreMembersOf(rows) ==
  IF rows = <<>> THEN <<>>
  ELSE <<[score |-> Head(rows)[3], member |-> Head(rows)[4]]>>
       \o ScoreMembersOf(Tail(rows))

\* members of data rows
RECURSIVE MembersOf(_)
MembersOf(rows) ==
  IF rows = <<>> THEN <<>>
  ELSE <<Head(rows)[3]>> \o MembersOf(Tail(rows))

\* variant: the count of a stale key is still reported
ZCard_IgnoresStale(db, t, key) == IF ~HasMeta(db, key) \/ GetMeta(db, key).count = 0 THEN Reply("NotFound", 0) ELSE Reply("OK", GetMeta(db, key).count)

ZCard(db, t, key) ==
  IF ~IsLive(db, t, key) THEN Reply("NotFound", 0)
  ELSE Reply("OK", GetMeta(db, key).count)

ZScore(db, t, key, member) ==
  IF ~IsLive(db, t, key) THEN Reply("NotFound", 0)
  ELSE
    LET rows == GetData(db, key, GetMeta(db, key).version, member)
    IN IF rows = {} THEN Reply("NotFound", 0) ELSE Reply("OK", ScoreOf(rows))

ZCount(db, t, key, min, max, left_close, right_close) ==
  IF ~IsLive(db, t, key) THEN Reply("NotFound", 0)
  ELSE
    LET parsed == GetMeta(db, key)
    IN Reply("OK",
             Len(ScorePassing(ScoreScan(db, key, parsed.version, parsed.count),
                              min, max, left_close, right_close)))

\* the window of rows ZRange and ZRevrange collect
RangeWindow(db, key, parsed, start, stop) ==
  LET count == parsed.count
      start_index == StartIndex(start, count)
      stop_index == StopIndex(stop, count)
  IN IF start_index > stop_index \/ start_index >= count \/ stop_index < 0
     THEN <<>>
     ELSE FromIndex(ScoreScan(db, key, parsed.version, stop_index + 1),
                    start_index)

\* variant: the window is returned from its last row to its first
ZRange_Descending(db, t, key, start, stop) ==
  IF ~IsLive(db, t, key) THEN Reply("NotFound", <<>>)
  ELSE Reply("OK",
             Reverse(ScoreMembersOf(
               RangeWindow(db, key, GetMeta(db, key), start, stop))))

ZRange(db, t, key, start, stop) ==
  IF ~IsLive(db, t, key) THEN Reply("NotFound", <<>>)
  ELSE Reply("OK",
             ScoreMembersOf(RangeWindow(db, key, GetMeta(db, key), start, stop)))

ZRevrange(db, t, key, start, stop) ==
  IF ~IsLive(db, t, key) THEN Reply("NotFound", <<>>)
  ELSE Reply("OK",
             Reverse(ScoreMembersOf(
               RangeWindow(db, key, GetMeta(db, key), start, stop))))

ZRangebyscore(db, t, key, min, max, left_close, right_close) ==
  IF ~IsLive(db, t, key) THEN Reply("NotFound", <<>>)
  ELSE
    LET parsed == GetMeta(db, key)
    IN Reply("OK",
             ScoreMembersOf(
               ScorePassing(ScoreScan(db, key, parsed.version, parsed.count),
                            min, max, left_close, right_close)))

\* the rows reached backward from the last row of (key, version)
ScoreScanBack(db, key, version, n) ==
  Take(SeekForPrevScore(db, ScoreRow(key, version, ScoreMax, <<>>)), n)

\* variant: the reverse scan breaks on right_pass = false as the forward one
ZRevrangebyscore_RightBreak(db, t, key, min, max, left_close, right_close) ==
  IF ~IsLive(db, t, key) THEN Reply("NotFound", <<>>)
  ELSE
    LET parsed == GetMeta(db, key)
    IN Reply("OK",
             ScoreMembersOf(
               ScorePassing(ScoreScanBack(db, key, parsed.version, parsed.count),
                            min, max, left_close, right_close)))

ZRevrangebyscore(db, t, key, min, max, left_close, right_close) ==
  IF ~IsLive(db, t, key) THEN Reply("NotFound", <<>>)
  ELSE
    LET parsed == GetMeta(db, key)
        visited == UntilLeftFail(
                     ScoreScanBack(db, key, parsed.version, parsed.count),
                     min, left_close)
    IN Reply("OK",
             ScoreMembersOf(SelectSeq(visited,
               LAMBDA r : RightPass(max, right_close, r[3]))))

\* the index (from 0) of the first row holding member, or -1
RECURSIVE IndexOfMember(_, _, _)
IndexOfMember(rows, member, index) ==
  IF rows = <<>> THEN -1
  ELSE IF BytesCompare(Head(rows)[4], member) = 0 THEN index
  ELSE IndexOfMember(Tail(rows), member, index + 1)

\* variant: the scan visits one row more than the set counts
ZRank_VisitsOneMore(db, t, key, member) ==
  IF ~IsLive(db, t, key) THEN Reply("NotFound", -1)
  ELSE
    LET parsed == GetMeta(db, key)
        index == IndexOfMember(
                   ScoreScan(db, key, parsed.version, parsed.count + 1),
                   member, 0)
    IN IF index >= 0 THEN Reply("OK", index) ELSE Reply("NotFound", -1)

\* variant: ranks are counted from 1
ZRank_CountsFromOne(db, t, key, member) ==
  IF ~IsLive(db, t, key) THEN Reply("NotFound", -1)
  ELSE
    LET parsed == GetMeta(db, key)
        index == IndexOfMember(
                   ScoreScan(db, key, parsed.version, parsed.count), member, 0)
    IN IF index >= 0 THEN Reply("OK", index + 1) ELSE Reply("NotFound", -1)

ZRank(db, t, key, member) ==
  IF ~IsLive(db, t, key) THEN Reply("NotFound", -1)
  ELSE
    LET parsed == GetMeta(db, key)
        index == IndexOfMember(
                   ScoreScan(db, key, parsed.version, parsed.count), member, 0)
    IN IF index >= 0 THEN Reply("OK", index) ELSE Reply("NotFound", -1)

\* the loop runs while left >= 0, left starting at count: count + 1 rows
ZRevrank(db, t, key, member) ==
  IF ~IsLive(db, t, key) THEN Reply("NotFound", -1)
  ELSE
    LET parsed == GetMeta(db, key)
        rev_index == IndexOfMember(
                       ScoreScanBack(db, key, parsed.version, parsed.count + 1),
                       member, 0)
    IN IF rev_index >= 0 THEN Reply("OK", rev_index) ELSE Reply("NotFound", -1)

ZRangebylex(db, t, key, min, max, left_close, right_close) ==
  IF ~IsLive(db, t, key) THEN Reply("NotFound", <<>>)
  ELSE
    LET parsed == GetMeta(db, key)
    IN Reply("OK",
             MembersOf(LexPassing(DataScan(db, key, parsed.version, parsed.count),
                                  min, max, left_close, right_close)))

ZLexcount(db, t, key, min, max, left_close, right_close) ==
  LET r == ZRangebylex(db, t, key, min, max, left_close, right_close)
  IN Reply(r.status, Len(r.ret))

\* variant: the stored timestamp is returned as it is
TTL_Absolute(db, t, key) == IF ~HasMeta(db, key) \/ IsStale(GetMeta(db, key), t) THEN Reply("NotFound", -2) ELSE Reply("OK", IF GetMeta(db, key).timestamp = 0 THEN -1 ELSE GetMeta(db, key).timestamp)

\* the remaining seconds of key; t is the clock of IsStale and of
\* GetCurrentTime
TTL(db, t, key) ==
  IF ~HasMeta(db, key) THEN Reply("NotFound", -2)
  ELSE
    LET parsed == GetMeta(db, key)
    IN IF IsStale(parsed, t) THEN Reply("NotFound", -2)
       ELSE IF parsed.timestamp = 0 THEN Reply("OK", -1)
       ELSE Reply("OK", IF parsed.timestamp - t > 0
                        THEN parsed.timestamp - t ELSE -1)

\* glob match of the patterns the model uses: "*" and literal strings
StarPattern == <<42>>
StringMatch(pattern, str) ==
  BytesCompare(pattern, StarPattern) = 0 \/ BytesCompare(pattern, str) = 0

\* iter->key().starts_with(prefix), prefix the encoded (key, version, "")
StartsWithPrefix(row, key, version) ==
  LET prefix == ZSetsMemberKey(key, version, <<>>)
      enc == ZSetsMemberKey(row[1], row[2], row[3])
  IN Len(enc) >= Len(prefix) /\ SubSeq(enc, 1, Len(prefix)) = prefix

\* the data rows the ZScan loop visits: from start_member on, inside the
\* prefix of (key, version), at most count of them
RECURSIVE ScanVisited(_, _, _, _)
ScanVisited(rows, key, version, rest) ==
  IF rows = <<>> \/ rest <= 0 THEN <<>>
  ELSE IF ~StartsWithPrefix(Head(rows), key, version) THEN <<>>
  ELSE <<Head(rows)>> \o ScanVisited(Tail(rows), key, version, rest - 1)

\* ZScan resumed at start_member: the pairs emitted, and the member the
\* iterator stopped at when that row is still one of the set (else <<>>)
ZScanFrom(db, t, key, start_member, pattern, count) ==
  IF ~IsLive(db, t, key)
  THEN [status |-> "NotFound", ret |-> <<>>, more |-> FALSE, next_member |-> <<>>]
  ELSE
    LET version == GetMeta(db, key).version
        rows == SeekData(db, DataRow(key, version, start_member, 0))
        visited == ScanVisited(rows, key, version, count)
        rest == FromIndex(rows, Len(visited))
        more == rest # <<>> /\ StartsWithPrefix(Head(rest), key, version)
        matched == SelectSeq(visited, LAMBDA r : StringMatch(pattern, r[3]))
    IN [status |-> "OK",
        ret |-> [i \in 1..Len(matched) |->
                   [score |-> matched[i][4], member |-> matched[i][3]]],
        more |-> more,
        next_member |-> IF more THEN Head(rest)[3] ELSE <<>>]

\* ZScan: a negative cursor returns at once, before the meta row is read;
\* start_member is the member GetZScanStartMember resumes at
ZScan(db, t, key, cursor, start_member, pattern, count) ==
  IF cursor < 0
  THEN [status |-> "OK", ret |-> <<>>, more |-> FALSE, next_member |-> <<>>]
  ELSE ZScanFrom(db, t, key, start_member, pattern, count)

(***************************************************************************)
(* The cursor store of ZSCAN: zscan_cursors_store_, a list of index keys   *)
(* with the newest in front and a map from index key to the member to      *)
(* resume at; max_size_ is fixed when the store is constructed.            *)
(***************************************************************************)
EmptyCursors(max_size) == [max_size_ |-> max_size, map_ |-> {}, list_ |-> <<>>]

\* std::to_string of an integer
RECURSIVE StdToString(_)
StdToString(n) ==
  IF n < 0 THEN <<45>> \o StdToString(0 - n)
  ELSE IF n < 10 THEN <<48 + n>>
  ELSE StdToString(n \div 10) \o <<48 + (n % 10)>>

\* index_key: key + "_" + pattern + "_" + std::to_string(cursor)
IndexKey(key, pattern, cursor) ==
  key \o <<95>> \o pattern \o <<95>> \o StdToString(cursor)

\* map_.find(index_key) != map_.end()
MapHas(map, index_key) == \E e \in map : e[1] = index_key

\* map_[index_key]
MapAt(map, index_key) == (CHOOSE e \in map : e[1] = index_key)[2]

\* map_[index_key] = next_member
MapPut(map, index_key, next_member) ==
  {e \in map : e[1] # index_key} \cup {<<index_key, next_member>>}

\* map_.erase(index_key)
MapErase(map, index_key) == {e \in map : e[1] # index_key}

\* list_.remove(index_key)
ListRemove(list, index_key) == SelectSeq(list, LAMBDA e : e # index_key)

\* variant: no cursor is ever found in the store
GetZScanStartMember_NeverFound(store, key, pattern, cursor) == [status |-> "NotFound", start_member |-> <<>>]

\* the member stored under the cursor of (key, pattern), NotFound without one
GetZScanStartMember(store, key, pattern, cursor) ==
  LET index_key == IndexKey(key, pattern, cursor)
  IN IF ~MapHas(store.map_, index_key)
     THEN [status |-> "NotFound", start_member |-> <<>>]
     ELSE [status |-> "OK", start_member |-> MapAt(store.map_, index_key)]

\* variant: the tail is dropped as soon as the list is full
EvictTail_WhenFull(store) == IF Len(store.list_) >= store.max_size_ /\ store.list_ # <<>> THEN [store EXCEPT !.map_ = MapErase(@, store.list_[Len(store.list_)]), !.list_ = SubSeq(@, 1, Len(@) - 1)] ELSE store

\* the eviction of StoreZScanNextMember: one entry, when the list is longer
\* than max_size_
EvictTail(store) ==
  IF Len(store.list_) > store.max_size_
  THEN [store EXCEPT !.map_ = MapErase(@, store.list_[Len(store.list_)]),
                     !.list_ = SubSeq(@, 1, Len(@) - 1)]
  ELSE store

StoreZScanNextMember(store, key, pattern, cursor, next_member) ==
  LET index_key == IndexKey(key, pattern, cursor)
      kept == EvictTail(store)
  IN [kept EXCEPT !.map_ = MapPut(@, index_key, next_member),
                  !.list_ = <<index_key>> \o ListRemove(@, index_key)]

\* ZScan with the cursor store: the reply, next_cursor and the store after
ZScanStored(store, db, t, key, cursor, pattern, count) ==
  IF cursor < 0
  THEN [status |-> "OK", ret |-> <<>>, next_cursor |-> 0, store |-> store]
  ELSE IF ~IsLive(db, t, key)
  THEN [status |-> "NotFound", ret |-> <<>>, next_cursor |-> 0, store |-> store]
  ELSE
    LET found == GetZScanStartMember(store, key, pattern, cursor)
        from == IF found.status = "NotFound" THEN 0 ELSE cursor
        r == ZScanFrom(db, t, key, found.start_member, pattern, count)
    IN IF r.more
       THEN [status |-> "OK", ret |-> r.ret, next_cursor |-> from + count,
             store |-> StoreZScanNextMember(store, key, pattern, from + count,
                                            r.next_member)]
       ELSE [status |-> "OK", ret |-> r.ret, next_cursor |-> 0, store |-> store]

(***************************************************************************)
(* The scans of the key space: iterators over the meta family.             *)
(***************************************************************************)
\* the keys of S in the byte order of the meta family
RECURSIVE KeysSorted(_)
KeysSorted(S) ==
  IF S = {} THEN <<>>
  ELSE LET first == CHOOSE k \in S : \A o \in S : BytesCompare(k, o) <= 0
       IN <<first>> \o KeysSorted(S \ {first})

\* it->Seek(start_key) on the meta family: the keys from start_key on
MetaSeek(db, start_key) ==
  KeysSorted({k \in DOMAIN db.meta :
                HasMeta(db, k) /\ BytesCompare(k, start_key) >= 0})

\* iter->SeekToFirst() on the meta family
MetaSeekToFirst(db) == KeysSorted({k \in DOMAIN db.meta : HasMeta(db, k)})

\* the loop of Scan: rows are the keys the iterator still has before it
RECURSIVE ScanLoop(_, _, _, _, _, _)
ScanLoop(db, t, rows, pattern, count, keys) ==
  IF rows = <<>> \/ count <= 0
  THEN [keys |-> keys, count |-> count, rest |-> rows]
  ELSE IF IsStale(GetMeta(db, Head(rows)), t)
  THEN ScanLoop(db, t, Tail(rows), pattern, count, keys)
  ELSE ScanLoop(db, t, Tail(rows), pattern, count - 1,
                IF StringMatch(pattern, Head(rows))
                THEN Append(keys, Head(rows)) ELSE keys)

\* variant: next_key is the last key emitted, not the key the iterator is on
Scan_ResumesAtLast(db, t, start_key, pattern, count) == LET loop == ScanLoop(db, t, MetaSeek(db, start_key), pattern, count, <<>>) IN [keys |-> loop.keys, count |-> loop.count, next_key |-> IF loop.rest = <<>> THEN <<>> ELSE IF loop.keys # <<>> THEN loop.keys[Len(loop.keys)] ELSE Head(loop.rest), is_finish |-> loop.rest = <<>>]

\* Scan: the keys emitted, the count left, next_key and is_finish
Scan(db, t, start_key, pattern, count) ==
  LET loop == ScanLoop(db, t, MetaSeek(db, start_key), pattern, count, <<>>)
  IN [keys |-> loop.keys,
      count |-> loop.count,
      next_key |-> IF loop.rest # <<>> THEN Head(loop.rest) ELSE <<>>,
      is_finish |-> loop.rest = <<>>]

\* the keys of the live sets among rows
RECURSIVE LiveKeysOf(_, _, _)
LiveKeysOf(db, t, rows) ==
  IF rows = <<>> THEN <<>>
  ELSE (IF ~IsStale(GetMeta(db, Head(rows)), t)
           /\ GetMeta(db, Head(rows)).count # 0
        THEN <<Head(rows)>> ELSE <<>>)
       \o LiveKeysOf(db, t, Tail(rows))

ScanKeyNum(db, t) == Len(LiveKeysOf(db, t, MetaSeekToFirst(db)))

ScanKeys(db, t, pattern) ==
  SelectSeq(LiveKeysOf(db, t, MetaSeekToFirst(db)),
            LAMBDA key : StringMatch(pattern, key))

(***************************************************************************)
(* The arguments the commands are called with.                             *)
(***************************************************************************)
\* all sequences over S with lo .. hi elements
SeqsOf(S, lo, hi) == UNION {[1..n -> S] : n \in lo..hi}

ScoreMembers == [score : Scores, member : Members]
ScoreMemberLists == SeqsOf(ScoreMembers, 1, MaxLen)
MemberLists == SeqsOf(Members, 1, MaxLen)
KeyLists == SeqsOf(Keys, 0, MaxLen)
WeightLists == {<<>>, <<2>>}
Aggregates == {"SUM", "MIN", "MAX"}
Indexes == {-1, 0, 1}
Closed == {TRUE, FALSE}
LexMins == {LexMinus, MemberA}
LexMaxs == {LexPlus, MemberB}

(***************************************************************************)
(* The engine as a state machine.  A command that takes the record lock    *)
(* first and reads the committed store under it is one step.               *)
(***************************************************************************)
\* the store when the database was first opened
EmptyDB == [meta |-> [k \in Keys |-> NoMeta], data |-> {}, score |-> {}]

\* no client is scanning
NoClient == [state |-> "none"]

Init ==
  /\ now = 1
  /\ meta = [k \in Keys |-> NoMeta]
  /\ data = {}
  /\ score = {}
  /\ inflight = NoCall
  /\ zscan_cursors_store = EmptyCursors(MaxSize)
  /\ client = NoClient
  /\ call_parity = 0
  /\ uncompacted = EmptyDB

\* the store stays within the bounds of the model
Bounded(db) ==
  /\ \A k \in Keys : db.meta[k].version <= MaxVersion
  /\ \A r \in db.data : r[4] \in ScoreRange
  /\ \A r \in db.score : r[3] \in ScoreRange

\* a command returns res and the store holds what it committed
Step(res) ==
  LET db == Commit(DB, res)
  IN /\ Bounded(db)
     /\ meta' = db.meta
     /\ data' = db.data
     /\ score' = db.score
     /\ UNCHANGED <<now, inflight>>
     /\ UNCHANGED scan_vars

\* GetCurrentTime moves on
Tick ==
  /\ now < MaxTime
  /\ now' = now + 1
  /\ UNCHANGED <<meta, data, score, inflight>>
  /\ UNCHANGED scan_vars

CallZAdd(K) ==
  \E key \in K, sms \in ScoreMemberLists : Step(ZAdd(DB, now, key, sms))

CallZIncrby(K) ==
  \E key \in K, member \in Members, increment \in Increments :
    Step(ZIncrby(DB, now, key, member, increment))

CallZRem(K) ==
  \E key \in K, members \in MemberLists : Step(ZRem(DB, now, key, members))

CallZRemrangebyrank(K) ==
  \E key \in K, start \in Indexes, stop \in Indexes :
    Step(ZRemrangebyrank(DB, now, key, start, stop))

CallZRemrangebyscore(K) ==
  \E key \in K, min \in Scores, max \in Scores, lc \in Closed, rc \in Closed :
    Step(ZRemrangebyscore(DB, now, key, min, max, lc, rc))

CallZRemrangebylex(K) ==
  \E key \in K, min \in LexMins, max \in LexMaxs, lc \in Closed, rc \in Closed :
    Step(ZRemrangebylex(DB, now, key, min, max, lc, rc))

CallZUnionstore(K) ==
  \E destination \in K, keys \in KeyLists, weights \in WeightLists,
     agg \in Aggregates :
    Step(ZUnionstore(DB, now, destination, keys, weights, agg))

CallZInterstore(K) ==
  \E destination \in K, keys \in KeyLists, weights \in WeightLists,
     agg \in Aggregates :
    Step(ZInterstore(DB, now, destination, keys, weights, agg))

CallDel(K) == \E key \in K : Step(Del(DB, now, key))

CallExpire(K) == \E key \in K, ttl \in Ttls : Step(Expire(DB, now, key, ttl))

CallExpireat(K) ==
  \E key \in K, timestamp \in Timestamps :
    Step(Expireat(DB, now, key, timestamp))

CallPersist(K) == \E key \in K : Step(Persist(DB, now, key))

\* the one command that writes the key "l"
CallZAddOther ==
  Step(ZAdd(DB, now, KeyL, <<[score |-> 1, member |-> MemberA]>>))

\* Spec: every mutating command, one at a time, on the key "k"; "l" is a
\* source of ZUNIONSTORE / ZINTERSTORE that holds one member once written
MainKeys == {KeyK}

Next ==
  \/ Tick
  \/ CallZAdd(MainKeys)
  \/ CallZIncrby(MainKeys)
  \/ CallZRem(MainKeys)
  \/ CallZRemrangebyrank(MainKeys)
  \/ CallZRemrangebyscore(MainKeys)
  \/ CallZRemrangebylex(MainKeys)
  \/ CallZUnionstore(MainKeys)
  \/ CallZInterstore(MainKeys)
  \/ CallDel(MainKeys)
  \/ CallExpire(MainKeys)
  \/ CallExpireat(MainKeys)
  \/ CallPersist(MainKeys)
  \/ CallZAddOther

Spec == Init /\ [][Next]_vars

(***************************************************************************)
(* Concurrent callers.  ZRemrangebylex, ZUnionstore and ZInterstore take   *)
(* their snapshot first and the record lock second, and read everything,   *)
(* the meta row of the key they write included, from that snapshot: other  *)
(* commands can commit between the two.  Every other mutating command      *)
(* takes the lock first and reads the committed store under it, so it is   *)
(* one step.  SpecConc follows one such waiting call in each run, and its   *)
(* clock stands still.                                                     *)
(***************************************************************************)
\* commands that may commit while one call waits for the record lock
MaxBetween == 1

\* what the command of call c returns when it reads db
Run(db, t, c) ==
  CASE c.op = "ZAdd" -> ZAdd(db, t, c.key, c.args[1])
    [] c.op = "ZIncrby" -> ZIncrby(db, t, c.key, c.args[1], c.args[2])
    [] c.op = "ZRem" -> ZRem(db, t, c.key, c.args[1])
    [] c.op = "ZRemrangebyrank" ->
         ZRemrangebyrank(db, t, c.key, c.args[1], c.args[2])
    [] c.op = "ZRemrangebyscore" ->
         ZRemrangebyscore(db, t, c.key, c.args[1], c.args[2], c.args[3],
                          c.args[4])
    [] c.op = "ZRemrangebylex" ->
         ZRemrangebylex(db, t, c.key, c.args[1], c.args[2], c.args[3],
                        c.args[4])
    [] c.op = "ZUnionstore" ->
         ZUnionstore(db, t, c.key, c.args[1], c.args[2], c.args[3])
    [] c.op = "ZInterstore" ->
         ZInterstore(db, t, c.key, c.args[1], c.args[2], c.args[3])
    [] c.op = "Del" -> Del(db, t, c.key)
    [] c.op = "Expire" -> Expire(db, t, c.key, c.args[1])

\* the waiting call has returned
Returned == [op |-> "returned"]

Waiting == inflight # NoCall /\ inflight # Returned

Call(op, key, args) == [op |-> op, key |-> key, args |-> args]

\* ScopeSnapshot: the call holds the store as it is now, and waits
Begin(c) ==
  /\ inflight = NoCall
  /\ inflight' = [call |-> c, snap |-> DB, between |-> <<>>]
  /\ UNCHANGED <<now, meta, data, score>>
  /\ UNCHANGED scan_vars

\* ScopeRecordLock acquired: read the snapshot, write the batch
Finish ==
  /\ Waiting
  /\ LET db == Commit(DB, Run(inflight.snap, now, inflight.call))
     IN /\ Bounded(db)
        /\ meta' = db.meta
        /\ data' = db.data
        /\ score' = db.score
  /\ inflight' = Returned
  /\ UNCHANGED now
  /\ UNCHANGED scan_vars

\* a command that holds the record lock from its first read to its write
Locked(c) ==
  /\ Waiting => Len(inflight.between) < MaxBetween
  /\ LET db == Commit(DB, Run(DB, now, c))
     IN /\ Bounded(db)
        /\ meta' = db.meta
        /\ data' = db.data
        /\ score' = db.score
  /\ inflight' = IF Waiting
                 THEN [inflight EXCEPT !.between = Append(@, c)]
                 ELSE inflight
  /\ UNCHANGED now
  /\ UNCHANGED scan_vars

BeginZRemrangebylex ==
  \E min \in LexMins, rc \in Closed :
    Begin(Call("ZRemrangebylex", KeyK, <<min, MemberB, TRUE, rc>>))

BeginZUnionstore ==
  \E keys \in {<<KeyK>>, <<KeyL>>} :
    Begin(Call("ZUnionstore", KeyK, <<keys, <<>>, "SUM">>))

BeginZInterstore ==
  \E keys \in {<<KeyK>>, <<KeyL>>} :
    Begin(Call("ZInterstore", KeyK, <<keys, <<>>, "SUM">>))

LockedZAdd ==
  \E sm \in ScoreMembers : Locked(Call("ZAdd", KeyK, <<<<sm>>>>))

\* the one command that writes the key "l"
LockedZAddOther ==
  Locked(Call("ZAdd", KeyL, <<<<[score |-> 1, member |-> MemberA]>>>>))

LockedZIncrby ==
  \E member \in Members : Locked(Call("ZIncrby", KeyK, <<member, 1>>))

LockedZRem ==
  \E member \in Members : Locked(Call("ZRem", KeyK, <<<<member>>>>))

LockedZRemrangebyrank == Locked(Call("ZRemrangebyrank", KeyK, <<0, 0>>))

LockedZRemrangebyscore ==
  \E max \in Scores :
    Locked(Call("ZRemrangebyscore", KeyK, <<1, max, TRUE, TRUE>>))

LockedDel == Locked(Call("Del", KeyK, <<>>))

LockedExpire == \E ttl \in Ttls : Locked(Call("Expire", KeyK, <<ttl>>))

NextConc ==
  \/ BeginZRemrangebylex
  \/ BeginZUnionstore
  \/ BeginZInterstore
  \/ Finish
  \/ LockedZAdd
  \/ LockedZAddOther
  \/ LockedZIncrby
  \/ LockedZRem
  \/ LockedZRemrangebyrank
  \/ LockedZRemrangebyscore
  \/ LockedDel
  \/ LockedExpire

SpecConc == Init /\ [][NextConc]_vars

(***************************************************************************)
(* What the claims speak of.                                               *)
(***************************************************************************)
DataRowsOf(db, key, version) ==
  {r \in db.data : r[1] = key /\ r[2] = version}

ScoreRowsOf(db, key, version) ==
  {r \in db.score : r[1] = key /\ r[2] = version}

\* the (member, score) pairs of the live set of key, from its Data rows
LivePairs(db, t, key) ==
  IF IsLive(db, t, key)
  THEN {<<r[3], r[4]>> : r \in DataRowsOf(db, key, GetMeta(db, key).version)}
  ELSE {}

LiveMembers(db, t, key) == {p[1] : p \in LivePairs(db, t, key)}

\* the number of members of the set of key (0 when absent, stale or empty)
LiveCount(db, t, key) ==
  IF IsLive(db, t, key) THEN GetMeta(db, key).count ELSE 0

\* rows of key under a version that is not the one in its meta row
LingeringRows(db, key) ==
  {r \in db.data : r[1] = key /\ r[2] # GetMeta(db, key).version}

(***************************************************************************)
(* C1: every key whose meta row is live with version v has exactly count   *)
(* Data rows and exactly count Score rows under (key, v), after every      *)
(* committed mutation of any sequence of the mutating commands.            *)
(***************************************************************************)
C1_CountMatchesRows ==
  \A key \in Keys :
    IsLive(DB, now, key) =>
      /\ Cardinality(DataRowsOf(DB, key, meta[key].version)) = meta[key].count
      /\ Cardinality(ScoreRowsOf(DB, key, meta[key].version)) = meta[key].count

\* a live set of two members in a version that follows a deleted one
C1_Witness ==
  /\ IsLive(DB, now, KeyK)
  /\ meta[KeyK].count = 2
  /\ LingeringRows(DB, KeyK) # {}

PairsOf(sms) == {<<sms[i].member, sms[i].score>> : i \in 1..Len(sms)}

InScoreBounds(s, min, max, left_close, right_close) ==
  LeftPass(min, left_close, s) /\ RightPass(max, right_close, s)

InLexBounds(m, min, max, left_close, right_close) ==
  LexLeftPass(min, left_close, m) /\ LexRightPass(max, right_close, m)

ScanCounts == {1, 2}

\* every reading command but ZREVRANK sees the live members only
C3_Reads(key) ==
  LET live == LivePairs(DB, now, key)
      members == LiveMembers(DB, now, key)
  IN /\ ZCard(DB, now, key).ret = Cardinality(live)
     /\ \A m \in Members \ members :
          /\ ZScore(DB, now, key, m).status = "NotFound"
          /\ ZRank(DB, now, key, m).status = "NotFound"
     /\ \A start \in Indexes, stop \in Indexes :
          /\ PairsOf(ZRange(DB, now, key, start, stop).ret) \subseteq live
          /\ PairsOf(ZRevrange(DB, now, key, start, stop).ret) \subseteq live
     /\ \A min \in Scores, max \in Scores, lc \in Closed, rc \in Closed :
          /\ PairsOf(ZRangebyscore(DB, now, key, min, max, lc, rc).ret)
               \subseteq live
          /\ PairsOf(ZRevrangebyscore(DB, now, key, min, max, lc, rc).ret)
               \subseteq live
          /\ ZCount(DB, now, key, min, max, lc, rc).ret =
               Cardinality({p \in live : InScoreBounds(p[2], min, max, lc, rc)})
     /\ \A min \in LexMins, max \in LexMaxs, lc \in Closed, rc \in Closed :
          /\ {ZRangebylex(DB, now, key, min, max, lc, rc).ret[i] :
                i \in 1..Len(ZRangebylex(DB, now, key, min, max, lc, rc).ret)}
               \subseteq members
          /\ ZLexcount(DB, now, key, min, max, lc, rc).ret =
               Cardinality({m \in members : InLexBounds(m, min, max, lc, rc)})
     /\ \A start_member \in Members \cup {<<>>}, count \in ScanCounts :
          PairsOf(ZScanFrom(DB, now, key, start_member, StarPattern, count).ret)
            \subseteq live

\* ZREVRANK finds the live members only
C3_Revrank(key) ==
  \A m \in Members \ LiveMembers(DB, now, key) :
    ZRevrank(DB, now, key, m).status = "NotFound"

\* C3: no read returns, counts or finds a member whose rows linger under
\* an earlier version of the key
C3_OldVersionInvisible ==
  \A key \in Keys :
    (IsLive(DB, now, key) /\ LingeringRows(DB, key) # {}) =>
      C3_Reads(key) /\ C3_Revrank(key)

(***************************************************************************)
(* C4: DEL, EXPIRE with ttl <= 0, ZUNIONSTORE / ZINTERSTORE onto an        *)
(* existing destination and ZADD / ZINCRBY on a stale key each leave the   *)
(* key with a version strictly greater than before, within one clock tick  *)
(* too; the version in a key's meta row never decreases.                   *)
(***************************************************************************)
\* the version of key after the command that returns res
VersionAfter(res, key) == Commit(DB, res).meta[key].version

C4_Bumps ==
  \A key \in Keys :
    HasMeta(DB, key) =>
      /\ Del(DB, now, key).written =>
           VersionAfter(Del(DB, now, key), key) > meta[key].version
      /\ \A ttl \in Ttls :
           (ttl <= 0 /\ Expire(DB, now, key, ttl).written) =>
             VersionAfter(Expire(DB, now, key, ttl), key) > meta[key].version
      /\ \A keys \in KeyLists, weights \in WeightLists, agg \in Aggregates :
           /\ VersionAfter(ZUnionstore(DB, now, key, keys, weights, agg), key)
                > meta[key].version
           /\ ZInterstore(DB, now, key, keys, weights, agg).written =>
                VersionAfter(ZInterstore(DB, now, key, keys, weights, agg), key)
                  > meta[key].version
      /\ IsStale(meta[key], now) =>
           /\ \A sms \in ScoreMemberLists :
                VersionAfter(ZAdd(DB, now, key, sms), key) > meta[key].version
           /\ \A member \in Members, increment \in Increments :
                VersionAfter(ZIncrby(DB, now, key, member, increment), key)
                  > meta[key].version

C4_NonDecreasing ==
  \A key \in Keys :
    HasMeta(DB, key) =>
      meta'[key] # NoMeta /\ meta'[key].version >= meta[key].version

\* C4: every command that starts a new version writes a larger one, and
\* no step lowers the version of a key
C4_VersionAdvances == [](C4_Bumps) /\ [][C4_NonDecreasing]_vars

\* a key deleted twice within the first second: version 2 at time 1
C4_Witness ==
  /\ now = 1
  /\ HasMeta(DB, KeyK)
  /\ meta[KeyK].version = 2
  /\ meta[KeyK].count = 0

(***************************************************************************)
(* C7: ZADD of distinct members to an absent key followed by ZRANGE 0 -1   *)
(* returns exactly those (member, score) pairs sorted by score and then by *)
(* member bytes; after any sequence of mutations ZRANGE 0 -1 lists every   *)
(* live member exactly once in that order.                                 *)
(***************************************************************************)
DistinctMembers(sms) ==
  \A i \in 1..Len(sms), j \in 1..Len(sms) :
    sms[i].member = sms[j].member => i = j

\* ascending by score, ties by member bytes, no pair twice
Ordered(sms) ==
  \A i \in 1..(Len(sms) - 1) :
    \/ sms[i].score < sms[i + 1].score
    \/ /\ sms[i].score = sms[i + 1].score
       /\ BytesCompare(sms[i].member, sms[i + 1].member) < 0

ListsExactly(sms, pairs) ==
  /\ Ordered(sms)
  /\ PairsOf(sms) = pairs
  /\ Len(sms) = Cardinality(pairs)

C7_RoundTrip ==
  \A key \in Keys, sms \in ScoreMemberLists :
    (~HasMeta(DB, key) /\ DistinctMembers(sms)) =>
      LET after == Commit(DB, ZAdd(DB, now, key, sms))
      IN /\ ZRange(after, now, key, 0, -1).status = "OK"
         /\ ListsExactly(ZRange(after, now, key, 0, -1).ret, PairsOf(sms))

C7_ListsLive ==
  \A key \in Keys :
    IsLive(DB, now, key) =>
      /\ ZRange(DB, now, key, 0, -1).status = "OK"
      /\ ListsExactly(ZRange(DB, now, key, 0, -1).ret, LivePairs(DB, now, key))

\* C7: ZRANGE 0 -1 lists exactly the live pairs, ascending by score and
\* then by member bytes, also right after the ZADD that created the key
C7_ZRangeRoundTrip == C7_RoundTrip /\ C7_ListsLive

\* two members listed by score against their byte order, old rows around
C7_Witness ==
  /\ LingeringRows(DB, KeyK) # {}
  /\ ZRange(DB, now, KeyK, 0, -1).ret =
       <<[score |-> 1, member |-> MemberB], [score |-> 2, member |-> MemberA]>>
  /\ ~HasMeta(DB, KeyL)

(***************************************************************************)
(* C8: ZADD returns the number of input members that were not live members *)
(* of the key before the call and increases the key's count by exactly     *)
(* that number; afterwards ZSCORE of every input member is the score given *)
(* for it and the Score index holds exactly one row for that member, at    *)
(* the new score.                                                          *)
(***************************************************************************)
InputMembers(sms) == {sms[i].member : i \in 1..Len(sms)}

\* C8: ZADD returns the number of new distinct members, count grows by
\* it, and every input member ends with its last listed score
C8_ZAdd ==
  \A key \in Keys, sms \in ScoreMemberLists :
    LET res == ZAdd(DB, now, key, sms)
        after == Commit(DB, res)
        version == after.meta[key].version
    IN /\ res.status = "OK"
       /\ res.ret = Cardinality(InputMembers(sms) \ LiveMembers(DB, now, key))
       /\ LiveCount(after, now, key) = LiveCount(DB, now, key) + res.ret
       /\ \A m \in InputMembers(sms) :
            /\ ZScore(after, now, key, m).status = "OK"
            /\ <<m, ZScore(after, now, key, m).ret>> \in PairsOf(sms)
            /\ DistinctMembers(sms) =>
                 \A i \in 1..Len(sms) :
                   sms[i].member = m =>
                     ZScore(after, now, key, m).ret = sms[i].score
            /\ {r \in ScoreRowsOf(after, key, version) : r[4] = m} =
                 {ScoreRow(key, version, ZScore(after, now, key, m).ret, m)}

\* a live set holding a at 1 is about to take a at 2 together with new b
C8_Witness ==
  /\ LivePairs(DB, now, KeyK) = {<<MemberA, 1>>}
  /\ LingeringRows(DB, KeyK) # {}
  /\ ZAdd(DB, now, KeyK, <<[score |-> 2, member |-> MemberA],
                           [score |-> 1, member |-> MemberB]>>).ret = 1

(***************************************************************************)
(* C9: ZADD of a member with the very score it already has in the live set *)
(* writes nothing for that pair: its Data and Score rows stay as they are, *)
(* the count does not change for it and the member is not counted in the   *)
(* return value.                                                           *)
(***************************************************************************)
EntriesFor(batch, key, member) ==
  {i \in 1..Len(batch) :
     /\ batch[i].cf # 0
     /\ batch[i].row[1] = key
     /\ \/ batch[i].cf = 1 /\ batch[i].row[3] = member
        \/ batch[i].cf = 2 /\ batch[i].row[4] = member}

\* C9: ZADD of a member with the score it already has writes no row of
\* that member and does not count it
C9_SameScoreNoOp ==
  \A key \in Keys, sms \in ScoreMemberLists :
    \A i \in 1..Len(sms) :
      (/\ DistinctMembers(sms)
       /\ <<sms[i].member, sms[i].score>> \in LivePairs(DB, now, key)) =>
        LET res == ZAdd(DB, now, key, sms)
            after == Commit(DB, res)
            others == [j \in 1..(Len(sms) - 1) |->
                         IF j < i THEN sms[j] ELSE sms[j + 1]]
        IN /\ EntriesFor(res.batch, key, sms[i].member) = {}
           /\ {r \in after.data : r[1] = key /\ r[3] = sms[i].member} =
                {r \in data : r[1] = key /\ r[3] = sms[i].member}
           /\ {r \in after.score : r[1] = key /\ r[4] = sms[i].member} =
                {r \in score : r[1] = key /\ r[4] = sms[i].member}
           /\ res.ret = Cardinality(InputMembers(others)
                                      \ LiveMembers(DB, now, key))
           /\ after.meta[key].count = meta[key].count + res.ret
           /\ Len(sms) = 1 => after = DB

\* the live set holds a at 2 next to rows of a deleted version
C9_Witness ==
  /\ <<MemberA, 2>> \in LivePairs(DB, now, KeyK)
  /\ LingeringRows(DB, KeyK) # {}
  /\ ZAdd(DB, now, KeyK, <<[score |-> 2, member |-> MemberA]>>).ret = 0

(***************************************************************************)
(* C10: ZINCRBY returns the old score plus the increment when the member   *)
(* was live and the increment alone otherwise; afterwards ZSCORE of the    *)
(* member is the returned value, the Score index holds exactly one row for *)
(* it, and the count grew by one exactly when the member was new.          *)
(***************************************************************************)
C10_ZIncrby ==
  \A key \in Keys, member \in Members, increment \in Increments :
    LET res == ZIncrby(DB, now, key, member, increment)
        after == Commit(DB, res)
        version == after.meta[key].version
        was_live == member \in LiveMembers(DB, now, key)
    IN /\ res.status = "OK"
       /\ was_live =>
            <<member, res.ret - increment>> \in LivePairs(DB, now, key)
       /\ ~was_live => res.ret = increment
       /\ ZScore(after, now, key, member).status = "OK"
       /\ ZScore(after, now, key, member).ret = res.ret
       /\ {r \in ScoreRowsOf(after, key, version) : r[4] = member} =
            {ScoreRow(key, version, res.ret, member)}
       /\ LiveCount(after, now, key) =
            LiveCount(DB, now, key) + (IF was_live THEN 0 ELSE 1)

\* a at 2 is live, b is not, and rows of a deleted version linger
C10_Witness ==
  /\ LivePairs(DB, now, KeyK) = {<<MemberA, 2>>}
  /\ LingeringRows(DB, KeyK) # {}
  /\ ZIncrby(DB, now, KeyK, MemberA, 1).ret = 3
  /\ ZIncrby(DB, now, KeyK, MemberB, -1).ret = -1

(***************************************************************************)
(* C5: the record lock serializes the mutations of one key: the call that  *)
(* waited for the lock bases its write on what the commands before it      *)
(* committed, so the store it leaves is the store that running it and the  *)
(* commands that committed while it waited, one at a time in some order    *)
(* from the store it first saw, leaves.                                    *)
(***************************************************************************)
RECURSIVE RunAll(_, _, _)
RunAll(db, t, calls) ==
  IF calls = <<>> THEN db
  ELSE RunAll(Commit(db, Run(db, t, Head(calls))), t, Tail(calls))

Orders(n) ==
  {p \in [1..n -> 1..n] : \A i \in 1..n, j \in 1..n : p[i] = p[j] => i = j}

\* the stores the calls can leave when run one at a time from db
SerialOutcomes(db, t, calls) ==
  {RunAll(db, t, [i \in 1..Len(calls) |-> calls[p[i]]]) :
     p \in Orders(Len(calls))}

C5_Finish == Waiting /\ inflight' = Returned

C5_Serial ==
  DB' \in SerialOutcomes(inflight.snap, now,
                         inflight.between \o <<inflight.call>>)

\* C5: the store a waiting call leaves is one that the same commands
\* leave when run one at a time in some order
C5_RecordLockSerializes == [][C5_Finish => C5_Serial]_vars

(***************************************************************************)
(* C6: a mutation commits its meta, Data and Score changes as one write,   *)
(* and an iterating read takes meta row and member rows from one snapshot  *)
(* of the store: whatever the writers of the key did, every row the read   *)
(* visits is a row of the key under the version of the meta row it read.   *)
(***************************************************************************)
\* the score rows that ZRANGE 0 -1, ZRANGEBYSCORE, ZCOUNT, ZRANK and the
\* source reads of ZUNIONSTORE visit on the snapshot db
VisitedScoreRows(db, key) ==
  LET parsed == GetMeta(db, key)
      window == RangeWindow(db, key, parsed, 0, -1)
      scan == ScoreScan(db, key, parsed.version, parsed.count)
  IN {window[i] : i \in 1..Len(window)} \cup {scan[i] : i \in 1..Len(scan)}

\* the data rows that ZRANGEBYLEX visits on the snapshot db
VisitedDataRows(db, key) ==
  LET parsed == GetMeta(db, key)
      lex == DataScan(db, key, parsed.version, parsed.count)
  IN {lex[i] : i \in 1..Len(lex)}

\* C6: an iterating read visits only rows under (key, version) of the
\* meta row it read
C6_SnapshotReads ==
  \A key \in Keys :
    IsLive(DB, now, key) =>
      /\ \A r \in VisitedScoreRows(DB, key) :
           r[1] = key /\ r[2] = meta[key].version
      /\ \A r \in VisitedDataRows(DB, key) :
           r[1] = key /\ r[2] = meta[key].version

(***************************************************************************)
(* A set of three members.  SpecRanks runs ZADD, ZINCRBY, ZREM, the three  *)
(* ZREMRANGEBY commands and DEL on the key "k" with the members a, b and   *)
(* c, and ZADD on the key "l"; its clock stands still.  Scores are counted *)
(* in halves here: 2 stands for 1.0, 3 for 1.5, an increment of -1 for     *)
(* -0.5.                                                                   *)
(***************************************************************************)
MemberC == <<99>>
Members3 == {MemberA, MemberB, MemberC}
HalfScores == 2..6
RemoveBounds == {3, 5}

\* ZADD k 1.0 a 2.0 b 3.0 c
OneTwoThree ==
  <<[score |-> 2, member |-> MemberA],
    [score |-> 4, member |-> MemberB],
    [score |-> 6, member |-> MemberC]>>

\* ZADD k 2.0 a, ZADD k 2.0 b, ZADD k 3.0 c, ZADD k 1.0 c
Singles ==
  {<<[score |-> 4, member |-> MemberA]>>,
   <<[score |-> 4, member |-> MemberB]>>,
   <<[score |-> 6, member |-> MemberC]>>,
   <<[score |-> 2, member |-> MemberC]>>}

\* a command returns res and the store holds what it committed
RanksStep(res) ==
  LET db == Commit(DB, res)
  IN /\ \A k \in Keys : db.meta[k].version <= MaxVersion
     /\ \A r \in db.data : r[4] \in HalfScores
     /\ \A r \in db.score : r[3] \in HalfScores
     /\ meta' = db.meta
     /\ data' = db.data
     /\ score' = db.score
     /\ UNCHANGED <<now, inflight>>
     /\ UNCHANGED scan_vars

RanksZAddAll == RanksStep(ZAdd(DB, now, KeyK, OneTwoThree))

RanksZAdd == \E sms \in Singles : RanksStep(ZAdd(DB, now, KeyK, sms))

\* ZINCRBY k b -0.5
RanksZIncrby == RanksStep(ZIncrby(DB, now, KeyK, MemberB, -1))

RanksZRem == \E member \in Members3 : RanksStep(ZRem(DB, now, KeyK, <<member>>))

RanksZRemrangebyrank ==
  \E start \in Indexes, stop \in Indexes :
    RanksStep(ZRemrangebyrank(DB, now, KeyK, start, stop))

RanksZRemrangebyscore ==
  \E min \in RemoveBounds, max \in RemoveBounds,
     left_close \in Closed, right_close \in Closed :
    RanksStep(ZRemrangebyscore(DB, now, KeyK, min, max,
                               left_close, right_close))

RanksZRemrangebylex ==
  \E min \in {LexMinus, MemberB}, max \in {LexPlus, MemberB},
     left_close \in Closed, right_close \in Closed :
    RanksStep(ZRemrangebylex(DB, now, KeyK, min, max, left_close, right_close))

RanksDel == RanksStep(Del(DB, now, KeyK))

RanksZAddOther ==
  RanksStep(ZAdd(DB, now, KeyL, <<[score |-> 4, member |-> MemberA]>>))

NextRanks ==
  \/ RanksZAddAll
  \/ RanksZAdd
  \/ RanksZIncrby
  \/ RanksZRem
  \/ RanksZRemrangebyrank
  \/ RanksZRemrangebyscore
  \/ RanksZRemrangebylex
  \/ RanksDel
  \/ RanksZAddOther

SpecRanks == Init /\ [][NextRanks]_vars

(***************************************************************************)
(* C11: starting from an empty store, after ZADD k 1.0 a 2.0 b 3.0 c and    *)
(* then ZADD k 2.0 a, ZINCRBY k b -0.5 returns 1.5; afterwards the order   *)
(* is b, a, c, and ZRANK k b returns 0 and ZRANK k a returns 1, ranks      *)
(* being counted from 0.  (Scores in halves: 1.5 is 3.)                    *)
(***************************************************************************)
EmptyStore == [meta |-> [k \in Keys |-> NoMeta], data |-> {}, score |-> {}]

\* the store after the two ZADDs
C11_Added(t) ==
  LET first == Commit(EmptyStore, ZAdd(EmptyStore, t, KeyK, OneTwoThree))
  IN Commit(first, ZAdd(first, t, KeyK, <<[score |-> 4, member |-> MemberA]>>))

\* the store after the ZINCRBY
C11_Incremented(t) ==
  Commit(C11_Added(t), ZIncrby(C11_Added(t), t, KeyK, MemberB, -1))

C11_Returns ==
  DB = C11_Added(now) =>
    /\ ZIncrby(DB, now, KeyK, MemberB, -1).status = "OK"
    /\ ZIncrby(DB, now, KeyK, MemberB, -1).ret = 3

\* C11: in the example ZINCRBY returns 1.5, then ZRANK k b is 0 and
\* ZRANK k a is 1
C11_Example ==
  /\ C11_Returns
  /\ DB = C11_Incremented(now) =>
       /\ MembersOf(DataScan(DB, KeyK, GetMeta(DB, KeyK).version, 3)) =
            <<MemberA, MemberB, MemberC>>
       /\ ZRange(DB, now, KeyK, 0, -1).ret =
            <<[score |-> 3, member |-> MemberB],
              [score |-> 4, member |-> MemberA],
              [score |-> 6, member |-> MemberC]>>
       /\ ZRank(DB, now, KeyK, MemberB) = Reply("OK", 0)
       /\ ZRank(DB, now, KeyK, MemberA) = Reply("OK", 1)

\* the store of the example once the ZINCRBY has committed
C11_Witness ==
  /\ DB = C11_Incremented(now)
  /\ ZScore(DB, now, KeyK, MemberB) = Reply("OK", 3)
  /\ ZRank(DB, now, KeyK, MemberC) = Reply("OK", 2)

\* C11 as stated: ZRANK k b returns 1 and ZRANK k a returns 2
C11_AsStated ==
  /\ C11_Returns
  /\ DB = C11_Incremented(now) =>
       /\ ZRank(DB, now, KeyK, MemberB).ret = 1
       /\ ZRank(DB, now, KeyK, MemberA).ret = 2

(***************************************************************************)
(* C12: ZREM(key, members) on a live key deletes the Data row and the      *)
(* Score row of every listed member that is in the set, leaves every other *)
(* member and its score (and every other row of the store) untouched,      *)
(* decrements meta.count by the number of distinct members removed and     *)
(* returns that number; a member listed twice is counted once.             *)
(***************************************************************************)
MembersIn(members) == {members[i] : i \in 1..Len(members)}

\* C12: ZREM removes both rows of each listed live member, counts each
\* once, lowers count by that number and touches nothing else
C12_ZRem ==
  \A key \in Keys, members \in MemberLists :
    IsLive(DB, now, key) =>
      LET res == ZRem(DB, now, key, members)
          after == Commit(DB, res)
          before == GetMeta(DB, key)
          gone == MembersIn(members) \cap LiveMembers(DB, now, key)
      IN /\ res.status = "OK"
         /\ res.ret = Cardinality(gone)
         /\ GetMeta(after, key) =
              [before EXCEPT !.count = before.count - Cardinality(gone)]
         /\ after.data = {r \in DB.data :
              ~(r[1] = key /\ r[2] = before.version /\ r[3] \in gone)}
         /\ after.score = {r \in DB.score :
              ~(r[1] = key /\ r[2] = before.version /\ r[4] \in gone)}
         /\ \A k \in Keys \ {key} : GetMeta(after, k) = GetMeta(DB, k)
         /\ \A m \in LiveMembers(DB, now, key) \ gone :
              ZScore(after, now, key, m) = ZScore(DB, now, key, m)
         /\ \A m \in gone : ZScore(after, now, key, m).status = "NotFound"

\* a set of two members over lingering rows: ZREM k a a removes a once
C12_Witness ==
  /\ LiveMembers(DB, now, KeyK) = {MemberA, MemberB}
  /\ LingeringRows(DB, KeyK) # {}
  /\ ZRem(DB, now, KeyK, <<MemberA, MemberA>>).ret = 1
  /\ LivePairs(Commit(DB, ZRem(DB, now, KeyK, <<MemberA, MemberA>>)), now, KeyK)
       = {p \in LivePairs(DB, now, KeyK) : p[1] = MemberB}

(***************************************************************************)
(* C13: ZRANGE(key, start, stop) on a live set of n members resolves a     *)
(* negative index i to n + i, clamps the start to 0 and the stop to n - 1, *)
(* returns the empty list when the resolved start exceeds the resolved     *)
(* stop, and otherwise returns exactly the members at the positions        *)
(* start_idx .. stop_idx of the ascending (score, member) order.           *)
(***************************************************************************)
RankIndexes == -4..4

\* p comes before q in the order of the set; p and q are <<member, score>>
Precedes(p, q) ==
  \/ p[2] < q[2]
  \/ p[2] = q[2] /\ BytesCompare(p[1], q[1]) < 0

\* the position (from 0) of p among pairs in ascending order
PositionOf(p, pairs) == Cardinality({q \in pairs : Precedes(q, p)})

\* the resolved and clamped indices of the statement
ResolvedStart(start, n) ==
  LET i == IF start < 0 THEN n + start ELSE start
  IN IF i < 0 THEN 0 ELSE i

ResolvedStop(stop, n) ==
  LET i == IF stop < 0 THEN n + stop ELSE stop
  IN IF i > n - 1 THEN n - 1 ELSE i

\* sms lists the pairs at the positions from .. to of pairs, in that order
ListsPositions(sms, pairs, from, to) ==
  IF from > to THEN sms = <<>>
  ELSE /\ Len(sms) = to - from + 1
       /\ \A i \in 1..Len(sms) :
            /\ <<sms[i].member, sms[i].score>> \in pairs
            /\ PositionOf(<<sms[i].member, sms[i].score>>, pairs) = from + i - 1

\* C13: ZRANGE returns the members at the resolved and clamped positions
\* start_idx .. stop_idx, or nothing when start_idx > stop_idx
C13_ZRange ==
  \A key \in Keys, start \in RankIndexes, stop \in RankIndexes :
    IsLive(DB, now, key) =>
      LET pairs == LivePairs(DB, now, key)
          n == Cardinality(pairs)
          r == ZRange(DB, now, key, start, stop)
      IN /\ r.status = "OK"
         /\ ListsPositions(r.ret, pairs,
                           ResolvedStart(start, n), ResolvedStop(stop, n))

\* three members over lingering rows: ZRANGE k -2 4 is the last two of them
C13_Witness ==
  /\ Cardinality(LivePairs(DB, now, KeyK)) = 3
  /\ LingeringRows(DB, KeyK) # {}
  /\ HasMeta(DB, KeyL)
  /\ ZRange(DB, now, KeyK, -2, 4).ret =
       <<[score |-> 3, member |-> MemberB], [score |-> 4, member |-> MemberA]>>
  /\ ZRange(DB, now, KeyK, 2, 1).ret = <<>>

(***************************************************************************)
(* C14: for every start and stop, ZREVRANGE(key, start, stop), which       *)
(* collects the ZRANGE(key, start, stop) window and reverses it, returns   *)
(* the same list as the implementation that iterates the set backward from *)
(* its highest (score, member) row and emits the rows whose backward index *)
(* lies in the resolved [start_idx, stop_idx].                             *)
(***************************************************************************)
\* the backward implementation: rows start_idx .. stop_idx counted from the
\* highest row of the set
BackwardWindow(db, t, key, start, stop) ==
  LET pairs == LivePairs(db, t, key)
      n == Cardinality(pairs)
      from == ResolvedStart(start, n)
      to == ResolvedStop(stop, n)
  IN IF from > to THEN <<>>
     ELSE [i \in 1..(to - from + 1) |->
            LET p == CHOOSE q \in pairs :
                       PositionOf(q, pairs) = n - 1 - (from + i - 1)
            IN [score |-> p[2], member |-> p[1]]]

\* C14: ZREVRANGE returns what the backward implementation returns, for
\* every start and stop
C14_RevrangeIsBackward ==
  \A key \in Keys, start \in RankIndexes, stop \in RankIndexes :
    IsLive(DB, now, key) =>
      ZRevrange(DB, now, key, start, stop).ret =
        BackwardWindow(DB, now, key, start, stop)

(***************************************************************************)
(* C15: ZRANGEBYSCORE(min, max, left_close, right_close) on a live set     *)
(* returns exactly the members whose score lies in the interval (each end  *)
(* open or closed as given), in ascending (score, member) order, and       *)
(* ZCOUNT with the same arguments returns the length of that list; the     *)
(* list is empty and the count 0 when no member matches.                   *)
(***************************************************************************)
ScoreBounds == {1, 3, 4, 5, 7}

\* s lies in the interval from min to max
WithinScores(s, min, max, left_close, right_close) ==
  /\ IF left_close THEN s >= min ELSE s > min
  /\ IF right_close THEN s <= max ELSE s < max

PairsWithin(db, t, key, min, max, left_close, right_close) ==
  {p \in LivePairs(db, t, key) :
     WithinScores(p[2], min, max, left_close, right_close)}

\* C15: ZRANGEBYSCORE lists exactly the members within the bounds in
\* ascending order and ZCOUNT is the length of that list
C15_ZRangebyscore ==
  \A key \in Keys, min \in ScoreBounds, max \in ScoreBounds,
     left_close \in Closed, right_close \in Closed :
    IsLive(DB, now, key) =>
      LET within == PairsWithin(DB, now, key, min, max, left_close, right_close)
          r == ZRangebyscore(DB, now, key, min, max, left_close, right_close)
          c == ZCount(DB, now, key, min, max, left_close, right_close)
      IN /\ r.status = "OK"
         /\ ListsExactly(r.ret, within)
         /\ c = Reply("OK", Len(r.ret))
         /\ within = {} => r.ret = <<>> /\ c.ret = 0

\* three members over lingering rows, the lowest cut off by an open bound
C15_Witness ==
  /\ LingeringRows(DB, KeyK) # {}
  /\ LivePairs(DB, now, KeyK) =
       {<<MemberA, 4>>, <<MemberB, 3>>, <<MemberC, 6>>}
  /\ ZRangebyscore(DB, now, KeyK, 3, 7, FALSE, FALSE).ret =
       <<[score |-> 4, member |-> MemberA], [score |-> 6, member |-> MemberC]>>
  /\ ZCount(DB, now, KeyK, 3, 7, FALSE, FALSE).ret = 2
  /\ ZCount(DB, now, KeyK, 5, 3, TRUE, TRUE).ret = 0

(***************************************************************************)
(* C16: for every live key and all bounds, ZREVRANGEBYSCORE(min, max,      *)
(* left_close, right_close) returns exactly the list that ZRANGEBYSCORE    *)
(* returns for the same arguments, in reverse order.                       *)
(***************************************************************************)
\* back is forth read from its last element to its first
IsReverseOf(back, forth) ==
  /\ Len(back) = Len(forth)
  /\ \A i \in 1..Len(back) : back[i] = forth[Len(forth) + 1 - i]

\* C16: ZREVRANGEBYSCORE is ZRANGEBYSCORE in reverse order
C16_ZRevrangebyscore ==
  \A key \in Keys, min \in ScoreBounds, max \in ScoreBounds,
     left_close \in Closed, right_close \in Closed :
    IsLive(DB, now, key) =>
      LET back == ZRevrangebyscore(DB, now, key, min, max,
                                   left_close, right_close)
          forth == ZRangebyscore(DB, now, key, min, max,
                                 left_close, right_close)
      IN /\ back.status = "OK"
         /\ IsReverseOf(back.ret, forth.ret)

\* three members over lingering rows: the highest fails the open right
\* bound and the two below it are listed from the top
C16_Witness ==
  /\ LingeringRows(DB, KeyK) # {}
  /\ HasMeta(DB, KeyL)
  /\ LivePairs(DB, now, KeyK) =
       {<<MemberA, 4>>, <<MemberB, 3>>, <<MemberC, 6>>}
  /\ ZRevrangebyscore(DB, now, KeyK, 3, 5, TRUE, FALSE).ret =
       <<[score |-> 4, member |-> MemberA], [score |-> 3, member |-> MemberB]>>

(***************************************************************************)
(* C17: ZRANK(key, member) returns the number of members that precede the  *)
(* member in (score ascending, member bytes ascending) order, a rank       *)
(* counted from 0, when the member is in the live set, and NotFound with   *)
(* rank -1 when it is not.                                                 *)
(***************************************************************************)
\* the live pair of member
LivePairOf(db, t, key, member) ==
  CHOOSE p \in LivePairs(db, t, key) : p[1] = member

\* C17: ZRANK is the number of members preceding a live member, and
\* NotFound with -1 for any other member
C17_ZRank ==
  \A key \in Keys, member \in Members3 :
    IF member \in LiveMembers(DB, now, key)
    THEN ZRank(DB, now, key, member) =
           Reply("OK", PositionOf(LivePairOf(DB, now, key, member),
                                  LivePairs(DB, now, key)))
    ELSE ZRank(DB, now, key, member) = Reply("NotFound", -1)

\* b and c live, c the lower; a is a member of the deleted version and of
\* the other key only
C17_Witness ==
  /\ LiveMembers(DB, now, KeyK) = {MemberB, MemberC}
  /\ \E r \in LingeringRows(DB, KeyK) : r[3] = MemberA
  /\ MemberA \in LiveMembers(DB, now, KeyL)
  /\ ZRank(DB, now, KeyK, MemberC) = Reply("OK", 0)
  /\ ZRank(DB, now, KeyK, MemberB) = Reply("OK", 1)
  /\ ZRank(DB, now, KeyK, MemberA) = Reply("NotFound", -1)

(***************************************************************************)
(* C18: ZREVRANK(key, member) returns the rank counted from 0 from the top *)
(* of the order, equal to count - 1 - ZRANK(key, member), when the member  *)
(* is in the live set, and NotFound when it is not, whatever rows of older *)
(* versions of the key or of other keys exist in the Score family.         *)
(***************************************************************************)
C18_ZRevrank ==
  \A key \in Keys, member \in Members3 :
    IF member \in LiveMembers(DB, now, key)
    THEN ZRevrank(DB, now, key, member) =
           Reply("OK", LiveCount(DB, now, key) - 1
                       - ZRank(DB, now, key, member).ret)
    ELSE ZRevrank(DB, now, key, member).status = "NotFound"

(***************************************************************************)
(* C19: each of ZREMRANGEBYRANK(start, stop), ZREMRANGEBYSCORE(min, max,   *)
(* lc, rc) and ZREMRANGEBYLEX(min, max, lc, rc) removes exactly the        *)
(* members that ZRANGE, ZRANGEBYSCORE and ZRANGEBYLEX return for the same  *)
(* arguments in the state before the call, deletes both the Data and the   *)
(* Score row of each, decrements meta.count by their number and returns    *)
(* that number; every other member keeps its score.                        *)
(***************************************************************************)
RemoveScoreBounds == {1, 3, 5}
RemoveLexMins == {LexMinus, MemberA, MemberB}
RemoveLexMaxs == {LexPlus, MemberB, MemberC}

\* res removes from the live set of key the members listed, and only them
RemovesExactly(res, key, listed) ==
  LET after == Commit(DB, res)
      before == GetMeta(DB, key)
  IN /\ res.status = "OK"
     /\ res.ret = Cardinality(listed)
     /\ GetMeta(after, key) =
          [before EXCEPT !.count = before.count - Cardinality(listed)]
     /\ after.data = {r \in DB.data :
          ~(r[1] = key /\ r[2] = before.version /\ r[3] \in listed)}
     /\ after.score = {r \in DB.score :
          ~(r[1] = key /\ r[2] = before.version /\ r[4] \in listed)}
     /\ \A k \in Keys \ {key} : GetMeta(after, k) = GetMeta(DB, k)
     /\ \A m \in LiveMembers(DB, now, key) \ listed :
          ZScore(after, now, key, m) = ZScore(DB, now, key, m)

MembersListed(sms) == {sms[i].member : i \in 1..Len(sms)}

C19_ByRank ==
  \A key \in Keys, start \in RankIndexes, stop \in RankIndexes :
    IsLive(DB, now, key) =>
      /\ ZRange(DB, now, key, start, stop).status = "OK"
      /\ RemovesExactly(ZRemrangebyrank(DB, now, key, start, stop), key,
           MembersListed(ZRange(DB, now, key, start, stop).ret))

C19_ByScore ==
  \A key \in Keys, min \in RemoveScoreBounds, max \in RemoveScoreBounds,
     left_close \in Closed, right_close \in Closed :
    IsLive(DB, now, key) =>
      /\ ZRangebyscore(DB, now, key, min, max,
                       left_close, right_close).status = "OK"
      /\ RemovesExactly(
           ZRemrangebyscore(DB, now, key, min, max, left_close, right_close),
           key,
           MembersListed(ZRangebyscore(DB, now, key, min, max,
                                       left_close, right_close).ret))

C19_ByLex ==
  \A key \in Keys, min \in RemoveLexMins, max \in RemoveLexMaxs,
     left_close \in Closed, right_close \in Closed :
    IsLive(DB, now, key) =>
      /\ ZRangebylex(DB, now, key, min, max,
                     left_close, right_close).status = "OK"
      /\ RemovesExactly(
           ZRemrangebylex(DB, now, key, min, max, left_close, right_close),
           key,
           MembersIn(ZRangebylex(DB, now, key, min, max,
                                 left_close, right_close).ret))

\* C19: each ZREMRANGEBY command removes exactly what its ZRANGE command
\* lists, both rows of each, and lowers count by the number it returns
C19_RemoveRanges == C19_ByRank /\ C19_ByScore /\ C19_ByLex

\* three members over lingering rows; each command removes two of them
C19_Witness ==
  /\ LingeringRows(DB, KeyK) # {}
  /\ HasMeta(DB, KeyL)
  /\ LivePairs(DB, now, KeyK) =
       {<<MemberA, 4>>, <<MemberB, 3>>, <<MemberC, 2>>}
  /\ ZRemrangebyrank(DB, now, KeyK, 1, -1).ret = 2
  /\ LivePairs(Commit(DB, ZRemrangebyrank(DB, now, KeyK, 1, -1)), now, KeyK)
       = {<<MemberC, 2>>}
  /\ ZRemrangebyscore(DB, now, KeyK, 1, 3, FALSE, TRUE).ret = 2
  /\ LivePairs(Commit(DB, ZRemrangebyscore(DB, now, KeyK, 1, 3, FALSE, TRUE)),
               now, KeyK) = {<<MemberA, 4>>}
  /\ ZRemrangebylex(DB, now, KeyK, MemberA, MemberC, FALSE, TRUE).ret = 2
  /\ LivePairs(Commit(DB, ZRemrangebylex(DB, now, KeyK, MemberA, MemberC,
                                         FALSE, TRUE)), now, KeyK)
       = {<<MemberA, 4>>}

(***************************************************************************)
(* C20: for a live set, ZRANGEBYLEX(min, max, lc, rc) returns, in          *)
(* ascending byte order, exactly the members m with min <= m (min < m when *)
(* lc is false, no lower bound when min is the token "-") and m <= max     *)
(* (m < max when rc is false, no upper bound when max is the token "+"),   *)
(* and ZLEXCOUNT with the same arguments returns the length of that list.  *)
(***************************************************************************)
LexBounds == {LexMinus, LexPlus, MemberA, MemberB, MemberC}

\* m lies within the lex bounds
WithinLex(m, min, max, left_close, right_close) ==
  /\ \/ min = LexMinus
     \/ IF left_close THEN BytesCompare(min, m) <= 0
        ELSE BytesCompare(min, m) < 0
  /\ \/ max = LexPlus
     \/ IF right_close THEN BytesCompare(m, max) <= 0
        ELSE BytesCompare(m, max) < 0

\* strictly ascending in byte order
AscendingBytes(members) ==
  \A i \in 1..(Len(members) - 1) :
    BytesCompare(members[i], members[i + 1]) < 0

\* C20: ZRANGEBYLEX lists exactly the members within the lex bounds in
\* byte order and ZLEXCOUNT is the length of that list
C20_ZRangebylex ==
  \A key \in Keys, min \in LexBounds, max \in LexBounds,
     left_close \in Closed, right_close \in Closed :
    IsLive(DB, now, key) =>
      LET r == ZRangebylex(DB, now, key, min, max, left_close, right_close)
          c == ZLexcount(DB, now, key, min, max, left_close, right_close)
      IN /\ r.status = "OK"
         /\ AscendingBytes(r.ret)
         /\ MembersIn(r.ret) =
              {m \in LiveMembers(DB, now, key) :
                 WithinLex(m, min, max, left_close, right_close)}
         /\ c = Reply("OK", Len(r.ret))

\* three members listed against their score order, over lingering rows
C20_Witness ==
  /\ LingeringRows(DB, KeyK) # {}
  /\ HasMeta(DB, KeyL)
  /\ LivePairs(DB, now, KeyK) =
       {<<MemberA, 4>>, <<MemberB, 3>>, <<MemberC, 2>>}
  /\ ZRangebylex(DB, now, KeyK, LexMinus, LexPlus, FALSE, FALSE).ret =
       <<MemberA, MemberB, MemberC>>
  /\ ZRangebylex(DB, now, KeyK, MemberA, MemberC, FALSE, FALSE).ret =
       <<MemberB>>
  /\ ZLexcount(DB, now, KeyK, MemberA, MemberB, TRUE, TRUE).ret = 2

(***************************************************************************)
(* C21: ZUNIONSTORE(dest, keys, weights, agg) stores in dest exactly the   *)
(* members that occur in at least one live source set; the score of a      *)
(* member is the aggregate (SUM, MIN or MAX) of weight_i * score_i over    *)
(* the sources i that contain it, with weight 1 for a source without a     *)
(* given weight; absent, stale and empty sources contribute nothing; the   *)
(* call returns the number of stored members.                              *)
(***************************************************************************)
\* the weight of source i (from 1): the one given, or 1
WeightOf(weights, i) == IF i \in DOMAIN weights THEN weights[i] ELSE 1

\* the sources (indices from 1) whose live set holds member
SourcesWith(db, t, keys, member) ==
  {i \in 1..Len(keys) : member \in LiveMembers(db, t, keys[i])}

\* weight_i * score_i of member in source i
WeightedScore(db, t, keys, weights, i, member) ==
  WeightOf(weights, i) * LivePairOf(db, t, keys[i], member)[2]

RECURSIVE SumOver(_, _, _, _, _, _)
SumOver(db, t, keys, weights, member, sources) ==
  IF sources = {} THEN 0
  ELSE LET i == CHOOSE j \in sources : TRUE
       IN WeightedScore(db, t, keys, weights, i, member)
          + SumOver(db, t, keys, weights, member, sources \ {i})

\* SUM, MIN or MAX of the weighted scores of member over sources
AggregateOver(db, t, keys, weights, agg, member, sources) ==
  LET all == {WeightedScore(db, t, keys, weights, i, member) : i \in sources}
  IN IF agg = "SUM" THEN SumOver(db, t, keys, weights, member, sources)
     ELSE IF agg = "MIN" THEN CHOOSE x \in all : \A y \in all : x <= y
     ELSE CHOOSE x \in all : \A y \in all : x >= y

\* the (member, score) pairs of the union of the live sources
UnionPairs(db, t, keys, weights, agg) ==
  {<<m, AggregateOver(db, t, keys, weights, agg, m,
                      SourcesWith(db, t, keys, m))>> :
     m \in UNION {LiveMembers(db, t, keys[i]) : i \in 1..Len(keys)}}

\* C21: ZUNIONSTORE stores exactly the weighted, aggregated union of the
\* live sources and returns its size
C21_ZUnionstore ==
  \A destination \in Keys, keys \in KeyLists, weights \in WeightLists,
     agg \in Aggregates :
    LET res == ZUnionstore(DB, now, destination, keys, weights, agg)
        after == Commit(DB, res)
        pairs == UnionPairs(DB, now, keys, weights, agg)
    IN /\ res.status = "OK"
       /\ res.ret = Cardinality(pairs)
       /\ LivePairs(after, now, destination) = pairs

\* k holds a and b, l holds a: the union onto k of k (weight 2) and l
\* (no weight given) under MIN takes a from l and b from k
C21_Witness ==
  /\ LivePairs(DB, now, KeyK) = {<<MemberA, 2>>, <<MemberB, 1>>}
  /\ LivePairs(DB, now, KeyL) = {<<MemberA, 1>>}
  /\ LivePairs(Commit(DB, ZUnionstore(DB, now, KeyK, <<KeyK, KeyL>>, <<2>>,
                                      "MIN")), now, KeyK)
       = {<<MemberA, 1>>, <<MemberB, 2>>}
  /\ ZUnionstore(DB, now, KeyK, <<KeyK, KeyL>>, <<2>>, "SUM").ret = 2

(***************************************************************************)
(* C22: ZINTERSTORE with a non-empty key list stores exactly the members   *)
(* present in every source set, each with the aggregate of                 *)
(* weight_i * score_i over all sources; if any source is absent, stale or  *)
(* empty, the destination is overwritten to the empty set and 0 is         *)
(* returned.                                                               *)
(***************************************************************************)
\* every source of the list is a live set
AllSourcesLive(db, t, keys) ==
  \A i \in 1..Len(keys) : LiveMembers(db, t, keys[i]) # {}

\* the (member, score) pairs of the intersection of the sources
InterPairs(db, t, keys, weights, agg) ==
  IF ~AllSourcesLive(db, t, keys) THEN {}
  ELSE {<<m, AggregateOver(db, t, keys, weights, agg, m, 1..Len(keys))>> :
          m \in {x \in LiveMembers(db, t, keys[1]) :
                   \A i \in 1..Len(keys) : x \in LiveMembers(db, t, keys[i])}}

\* C22: ZINTERSTORE of a non-empty key list stores exactly the weighted,
\* aggregated intersection, which is empty when a source is not live
C22_ZInterstore ==
  \A destination \in Keys, keys \in KeyLists \ {<<>>},
     weights \in WeightLists, agg \in Aggregates :
    LET res == ZInterstore(DB, now, destination, keys, weights, agg)
        after == Commit(DB, res)
        pairs == InterPairs(DB, now, keys, weights, agg)
    IN /\ res.status = "OK"
       /\ res.ret = Cardinality(pairs)
       /\ LivePairs(after, now, destination) = pairs
       /\ res.written
       /\ ~AllSourcesLive(DB, now, keys) =>
            /\ res.ret = 0
            /\ GetMeta(after, destination).count = 0

\* k holds a and b, l holds a: the intersection of k (weight 2) and l keeps
\* a alone, with 2 * 2 + 1 under SUM and min(4, 1) under MIN
C22_Witness ==
  /\ LivePairs(DB, now, KeyK) = {<<MemberA, 2>>, <<MemberB, 1>>}
  /\ LivePairs(DB, now, KeyL) = {<<MemberA, 1>>}
  /\ LivePairs(Commit(DB, ZInterstore(DB, now, KeyK, <<KeyK, KeyL>>, <<2>>,
                                      "SUM")), now, KeyK)
       = {<<MemberA, 5>>}
  /\ LivePairs(Commit(DB, ZInterstore(DB, now, KeyL, <<KeyK, KeyL>>, <<2>>,
                                      "MIN")), now, KeyL)
       = {<<MemberA, 1>>}

\* a stale source: the destination l, which held a, is overwritten to the
\* empty set
C22_WitnessStale ==
  /\ HasMeta(DB, KeyK) /\ IsStale(GetMeta(DB, KeyK), now)
  /\ DataRowsOf(DB, KeyK, GetMeta(DB, KeyK).version) # {}
  /\ LiveMembers(DB, now, KeyL) = {MemberA}
  /\ LiveMembers(Commit(DB, ZInterstore(DB, now, KeyL, <<KeyK, KeyL>>, <<>>,
                                        "SUM")), now, KeyL) = {}

(***************************************************************************)
(* C23: after ZUNIONSTORE or ZINTERSTORE commits, the destination's        *)
(* meta.count, the returned value, the number of Data rows and the number  *)
(* of Score rows under the destination's new version all equal the size of *)
(* the computed result, and the members the destination held before that   *)
(* are not in the result are no longer returned by any read of the         *)
(* destination.                                                            *)
(***************************************************************************)
\* count, ret and the rows under the new version all number n
StoredCount(res, destination, n) ==
  LET after == Commit(DB, res)
      m == GetMeta(after, destination)
  IN /\ m.count = n
     /\ res.ret = n
     /\ Cardinality(DataRowsOf(after, destination, m.version)) = n
     /\ Cardinality(ScoreRowsOf(after, destination, m.version)) = n

\* no read of key but ZREVRANK returns or finds member
HiddenFromReads(db, t, key, member) ==
  /\ ZScore(db, t, key, member).status = "NotFound"
  /\ ZRank(db, t, key, member).status = "NotFound"
  /\ member \notin MembersListed(ZRange(db, t, key, 0, -1).ret)
  /\ member \notin MembersListed(ZRevrange(db, t, key, 0, -1).ret)
  /\ member \notin MembersListed(
       ZRangebyscore(db, t, key, ScoreLowest, ScoreMax, TRUE, TRUE).ret)
  /\ member \notin MembersListed(
       ZRevrangebyscore(db, t, key, ScoreLowest, ScoreMax, TRUE, TRUE).ret)
  /\ \A i \in 1..Len(ZRangebylex(db, t, key, LexMinus, LexPlus, TRUE, TRUE).ret) :
       ZRangebylex(db, t, key, LexMinus, LexPlus, TRUE, TRUE).ret[i] # member
  /\ \A start_member \in {<<>>, member} :
       member \notin MembersListed(
         ZScanFrom(db, t, key, start_member, StarPattern, MaxLen).ret)

\* ZREVRANK does not find member in key
HiddenFromRevrank(db, t, key, member) ==
  ZRevrank(db, t, key, member).status = "NotFound"

\* the members of destination that are not in the stored result
Dropped(destination, pairs) ==
  LiveMembers(DB, now, destination) \ {p[1] : p \in pairs}

\* the sizes agree after either command
C23_Sizes ==
  \A destination \in Keys, keys \in KeyLists, weights \in WeightLists,
     agg \in Aggregates :
    /\ StoredCount(ZUnionstore(DB, now, destination, keys, weights, agg),
                   destination,
                   Cardinality(UnionPairs(DB, now, keys, weights, agg)))
    /\ keys # <<>> =>
         StoredCount(ZInterstore(DB, now, destination, keys, weights, agg),
                     destination,
                     Cardinality(InterPairs(DB, now, keys, weights, agg)))

\* every read but ZREVRANK has lost the dropped members
C23_DroppedHidden ==
  \A destination \in Keys, keys \in KeyLists, weights \in WeightLists,
     agg \in Aggregates :
    /\ \A m \in Dropped(destination, UnionPairs(DB, now, keys, weights, agg)) :
         HiddenFromReads(
           Commit(DB, ZUnionstore(DB, now, destination, keys, weights, agg)),
           now, destination, m)
    /\ keys # <<>> =>
         \A m \in Dropped(destination,
                          InterPairs(DB, now, keys, weights, agg)) :
           HiddenFromReads(
             Commit(DB, ZInterstore(DB, now, destination, keys, weights, agg)),
             now, destination, m)

\* ZREVRANK has lost the dropped members
C23_DroppedNoRevrank ==
  \A destination \in Keys, keys \in KeyLists, weights \in WeightLists,
     agg \in Aggregates :
    /\ \A m \in Dropped(destination, UnionPairs(DB, now, keys, weights, agg)) :
         HiddenFromRevrank(
           Commit(DB, ZUnionstore(DB, now, destination, keys, weights, agg)),
           now, destination, m)
    /\ keys # <<>> =>
         \A m \in Dropped(destination,
                          InterPairs(DB, now, keys, weights, agg)) :
           HiddenFromRevrank(
             Commit(DB, ZInterstore(DB, now, destination, keys, weights, agg)),
             now, destination, m)

\* C23: after ZUNIONSTORE or ZINTERSTORE the count, the returned value and
\* the rows of the new version have the size of the result, and no read of
\* the destination returns a member that the result dropped
C23_StoreReplaces ==
  C23_Sizes /\ C23_DroppedHidden /\ C23_DroppedNoRevrank

(***************************************************************************)
(* C25: DEL on a key whose meta exists, is not stale and has count > 0,    *)
(* and EXPIRE with ttl <= 0 on a non-stale key, write only the meta row    *)
(* (version bumped, count = 0, timestamp = 0) and leave every Data and     *)
(* Score row physically in place; DEL on an absent, stale or empty key     *)
(* returns NotFound and writes nothing.                                    *)
(***************************************************************************)
NonPositiveTtls == {-1, 0}

\* res wrote the meta row of key alone: version up, count and timestamp 0
ResetsMetaOnly(res, key) ==
  LET after == Commit(DB, res)
  IN /\ res.status = "OK"
     /\ res.written
     /\ Len(res.batch) = 1
     /\ res.batch[1] = PutMeta(key, GetMeta(after, key))
     /\ GetMeta(after, key).version > GetMeta(DB, key).version
     /\ GetMeta(after, key).count = 0
     /\ GetMeta(after, key).timestamp = 0
     /\ after.data = DB.data
     /\ after.score = DB.score
     /\ \A other \in Keys \ {key} : GetMeta(after, other) = GetMeta(DB, other)

\* res is NotFound and wrote nothing
NotFoundNoWrite(res) ==
  /\ res.status = "NotFound"
  /\ ~res.written
  /\ res.batch = <<>>
  /\ Commit(DB, res) = DB

\* C25: DEL of a live set and EXPIRE with ttl <= 0 of a non-stale key write
\* the meta row alone and keep every Data and Score row; DEL of an absent,
\* stale or empty key is NotFound and writes nothing
C25_DelKeepsRows ==
  \A key \in Keys :
    /\ IF IsLive(DB, now, key)
       THEN ResetsMetaOnly(Del(DB, now, key), key)
       ELSE NotFoundNoWrite(Del(DB, now, key))
    /\ (HasMeta(DB, key) /\ ~IsStale(GetMeta(DB, key), now)) =>
         \A ttl \in NonPositiveTtls :
           ResetsMetaOnly(Expire(DB, now, key, ttl), key)

\* k is a live set of two members with a timeout: after DEL and after
\* EXPIRE 0 its rows are still there under the version it had
C25_Witness ==
  /\ LiveCount(DB, now, KeyK) = MaxLen
  /\ GetMeta(DB, KeyK).timestamp > now
  /\ Cardinality(DataRowsOf(Commit(DB, Del(DB, now, KeyK)), KeyK,
                            GetMeta(DB, KeyK).version)) = MaxLen
  /\ Cardinality(ScoreRowsOf(Commit(DB, Expire(DB, now, KeyK, 0)), KeyK,
                             GetMeta(DB, KeyK).version)) = MaxLen
  /\ GetMeta(Commit(DB, Del(DB, now, KeyK)), KeyK).count = 0

(***************************************************************************)
(* C24: ZINTERSTORE with an empty key list returns Corruption and changes  *)
(* no row in any column family.                                            *)
(***************************************************************************)
\* C24: ZINTERSTORE of no keys is Corruption and leaves the three column
\* families as they were
C24_InterstoreNoKeys ==
  \A destination \in Keys, weights \in WeightLists, agg \in Aggregates :
    LET res == ZInterstore(DB, now, destination, <<>>, weights, agg)
    IN /\ res.status = "Corruption"
       /\ ~res.written
       /\ res.batch = <<>>
       /\ Commit(DB, res) = DB

\* k is a live set: ZINTERSTORE of no keys onto it fails and keeps it, where
\* ZUNIONSTORE of no keys would empty it
C24_Witness ==
  /\ LiveCount(DB, now, KeyK) = MaxLen
  /\ ZInterstore(DB, now, KeyK, <<>>, <<>>, "SUM").status = "Corruption"
  /\ LiveCount(Commit(DB, ZInterstore(DB, now, KeyK, <<>>, <<>>, "SUM")),
               now, KeyK) = MaxLen
  /\ LiveCount(Commit(DB, ZUnionstore(DB, now, KeyK, <<>>, <<>>, "SUM")),
               now, KeyK) = 0

(***************************************************************************)
(* C26: TTL returns -2 when the key is absent or stale, -1 when it is live *)
(* with timestamp 0, and otherwise timestamp - now (at least 1); EXPIRE    *)
(* with ttl > 0 sets the timestamp to now + ttl, EXPIREAT sets it to the   *)
(* given value, PERSIST sets it to 0, or returns NotFound without writing  *)
(* when no timestamp was set.                                              *)
(***************************************************************************)
PositiveTtls == {1, 2}

\* res wrote the meta row of key alone, and changed its timestamp alone
SetsTimestampOnly(res, key, timestamp) ==
  LET after == Commit(DB, res)
  IN /\ res.status = "OK"
     /\ res.written
     /\ after.meta = [DB.meta EXCEPT ![key].timestamp = timestamp]
     /\ after.data = DB.data
     /\ after.score = DB.score

\* the meta row of key exists and is not stale
HasFreshMeta(key) == HasMeta(DB, key) /\ ~IsStale(GetMeta(DB, key), now)

C26_TTLValue ==
  \A key \in Keys :
    /\ ~HasFreshMeta(key) => TTL(DB, now, key) = Reply("NotFound", -2)
    /\ IsLive(DB, now, key) =>
         IF GetMeta(DB, key).timestamp = 0
         THEN TTL(DB, now, key) = Reply("OK", -1)
         ELSE /\ TTL(DB, now, key) =
                   Reply("OK", GetMeta(DB, key).timestamp - now)
              /\ TTL(DB, now, key).ret >= 1

C26_Setters ==
  \A key \in Keys :
    HasFreshMeta(key) =>
      /\ \A ttl \in PositiveTtls :
           /\ SetsTimestampOnly(Expire(DB, now, key, ttl), key, now + ttl)
           /\ IsLive(DB, now, key) =>
                TTL(Commit(DB, Expire(DB, now, key, ttl)), now, key).ret = ttl
      /\ \A timestamp \in Timestamps :
           SetsTimestampOnly(Expireat(DB, now, key, timestamp), key, timestamp)
      /\ IF GetMeta(DB, key).timestamp = 0
         THEN NotFoundNoWrite(Persist(DB, now, key))
         ELSE /\ SetsTimestampOnly(Persist(DB, now, key), key, 0)
              /\ IsLive(DB, now, key) =>
                   TTL(Commit(DB, Persist(DB, now, key)), now, key).ret = -1

Cursors == {-1, 0, 2}

\* the reads of key that take no cursor are NotFound with their defaults
ReadsNotFound(key) ==
  /\ ZCard(DB, now, key) = Reply("NotFound", 0)
  /\ \A member \in Members :
       /\ ZScore(DB, now, key, member) = Reply("NotFound", 0)
       /\ ZRank(DB, now, key, member) = Reply("NotFound", -1)
       /\ ZRevrank(DB, now, key, member) = Reply("NotFound", -1)
  /\ \A start \in Indexes, stop \in Indexes :
       /\ ZRange(DB, now, key, start, stop) = Reply("NotFound", <<>>)
       /\ ZRevrange(DB, now, key, start, stop) = Reply("NotFound", <<>>)
  /\ \A min \in Scores, max \in Scores, lc \in Closed, rc \in Closed :
       /\ ZCount(DB, now, key, min, max, lc, rc) = Reply("NotFound", 0)
       /\ ZRangebyscore(DB, now, key, min, max, lc, rc)
            = Reply("NotFound", <<>>)
       /\ ZRevrangebyscore(DB, now, key, min, max, lc, rc)
            = Reply("NotFound", <<>>)
  /\ \A min \in LexMins, max \in LexMaxs, lc \in Closed, rc \in Closed :
       /\ ZRangebylex(DB, now, key, min, max, lc, rc) = Reply("NotFound", <<>>)
       /\ ZLexcount(DB, now, key, min, max, lc, rc) = Reply("NotFound", 0)

\* ZSCAN of key at the given cursors is NotFound with the empty list and
\* next_cursor 0
ScansNotFound(key, cursors) ==
  \A cursor \in cursors, start_member \in Members \cup {<<>>},
     count \in ScanCounts :
    LET r == ZScan(DB, now, key, cursor, start_member, StarPattern, count)
    IN r.status = "NotFound" /\ r.ret = <<>> /\ ~r.more

\* res is NotFound with 0 removed and wrote nothing
RemovesNothing(res) == NotFoundNoWrite(res) /\ res.ret = 0

\* the removing commands on key are NotFound, return 0 and write nothing
RemovesNotFound(key) ==
  /\ \A members \in MemberLists : RemovesNothing(ZRem(DB, now, key, members))
  /\ \A start \in Indexes, stop \in Indexes :
       RemovesNothing(ZRemrangebyrank(DB, now, key, start, stop))
  /\ \A min \in Scores, max \in Scores, lc \in Closed, rc \in Closed :
       RemovesNothing(ZRemrangebyscore(DB, now, key, min, max, lc, rc))
  /\ \A min \in LexMins, max \in LexMaxs, lc \in Closed, rc \in Closed :
       RemovesNothing(ZRemrangebylex(DB, now, key, min, max, lc, rc))

\* C27: on a key that is missing, stale or empty every read (ZSCAN with a
\* cursor >= 0) and every removing command is NotFound with its default
\* output and writes nothing
C27_NotFoundDefaults ==
  \A key \in Keys :
    ~IsLive(DB, now, key) =>
      /\ ReadsNotFound(key)
      /\ ScansNotFound(key, {c \in Cursors : c >= 0})
      /\ RemovesNotFound(key)

\* the claim as it is worded: ZSCAN with any cursor
C27_AsStated ==
  \A key \in Keys :
    ~IsLive(DB, now, key) =>
      /\ ReadsNotFound(key)
      /\ ScansNotFound(key, Cursors)
      /\ RemovesNotFound(key)

\* k is stale and its two members' rows are still in both families: ZRANGE
\* and ZREM on it are NotFound
C27_Witness ==
  /\ HasMeta(DB, KeyK) /\ IsStale(GetMeta(DB, KeyK), now)
  /\ GetMeta(DB, KeyK).count = MaxLen
  /\ Cardinality(ScoreRowsOf(DB, KeyK, GetMeta(DB, KeyK).version)) = MaxLen
  /\ ZRange(DB, now, KeyK, 0, -1) = Reply("NotFound", <<>>)
  /\ ZRem(DB, now, KeyK, <<MemberA>>).status = "NotFound"
  /\ ZScan(DB, now, KeyK, 0, <<>>, StarPattern, MaxLen).status = "NotFound"

(***************************************************************************)
(* C28: EXPIRE, PERSIST and TTL treat a key whose set is empty (count = 0) *)
(* like a missing key: EXPIRE and PERSIST return NotFound and leave the    *)
(* meta row unchanged, TTL returns -2.                                     *)
(***************************************************************************)
\* the meta row of key exists, is not stale and has count 0
IsEmptySet(key) == HasFreshMeta(key) /\ GetMeta(DB, key).count = 0

\* C28: on a key of count 0 EXPIRE and PERSIST are NotFound and write
\* nothing, and TTL is -2
C28_EmptyLikeMissing ==
  \A key \in Keys :
    IsEmptySet(key) =>
      /\ \A ttl \in NonPositiveTtls \cup PositiveTtls :
           NotFoundNoWrite(Expire(DB, now, key, ttl))
      /\ NotFoundNoWrite(Persist(DB, now, key))
      /\ TTL(DB, now, key).ret = -2

(***************************************************************************)
(* C29: Scan emits only keys of live sets: a key that is stale or whose    *)
(* count is 0 is never put into the result, in agreement with ScanKeys and *)
(* ScanKeyNum.                                                             *)
(***************************************************************************)
StartKeys == {<<>>} \cup Keys

Patterns == {StarPattern} \cup Keys

\* the elements of a sequence
ElementsOf(seq) == {seq[i] : i \in 1..Len(seq)}

\* ScanKeys and ScanKeyNum list and count the live sets
C29_ScanKeysLive ==
  /\ \A pattern \in Patterns :
       ElementsOf(ScanKeys(DB, now, pattern)) =
         {key \in Keys : IsLive(DB, now, key) /\ StringMatch(pattern, key)}
  /\ ScanKeyNum(DB, now) = Cardinality({key \in Keys : IsLive(DB, now, key)})

\* Scan never emits a stale key
C29_ScanSkipsStale ==
  \A start_key \in StartKeys, pattern \in Patterns, count \in ScanCounts :
    \A key \in ElementsOf(Scan(DB, now, start_key, pattern, count).keys) :
      ~IsStale(GetMeta(DB, key), now)

\* C29: every key that Scan emits is the key of a live set, one that
\* ScanKeys lists for the same pattern
C29_ScanOnlyLive ==
  \A start_key \in StartKeys, pattern \in Patterns, count \in ScanCounts :
    \A key \in ElementsOf(Scan(DB, now, start_key, pattern, count).keys) :
      /\ IsLive(DB, now, key)
      /\ key \in ElementsOf(ScanKeys(DB, now, pattern))

(***************************************************************************)
(* C30: Scan decrements count only for the keys it emits (live keys        *)
(* matching the pattern), so one call with count = c returns               *)
(* min(c, number of live matching keys at or after start_key) keys.        *)
(***************************************************************************)
\* the live keys at or after start_key that match pattern
LiveMatching(start_key, pattern) ==
  {key \in Keys : /\ IsLive(DB, now, key)
                  /\ BytesCompare(key, start_key) >= 0
                  /\ StringMatch(pattern, key)}

\* C30: Scan returns min(count, live matching keys from start_key) keys and
\* takes from count the number of keys it returns
C30_ScanCount ==
  \A start_key \in StartKeys, pattern \in Patterns, count \in ScanCounts :
    LET r == Scan(DB, now, start_key, pattern, count)
    IN /\ Len(r.keys) = Min(count, Cardinality(LiveMatching(start_key, pattern)))
       /\ r.count = count - Len(r.keys)

\* the same with every key of the store live, where C29 has no part
C30_ScanCountAllLive ==
  (\A key \in Keys : HasMeta(DB, key) => IsLive(DB, now, key)) => C30_ScanCount

(***************************************************************************)
(* SpecZScan: one client iterates ZSCAN over key k.  It starts at cursor 0 *)
(* with a pattern, feeds each next_cursor into its next call and is done   *)
(* when next_cursor is 0; the count may differ from call to call.  ZADD    *)
(* and ZREM change the set MaxChanges times at most; a change makes the    *)
(* client give up its iteration and start again.  The cursor store is      *)
(* large enough to evict nothing, and keeps the entries of the earlier     *)
(* iterations.                                                             *)
(***************************************************************************)
MaxChanges == 3
AmpleSize == 6

ScanPatterns == {StarPattern, MemberB}

\* the client before its first call and after a change of the set
Idle(changes) ==
  [state |-> "idle", cursor |-> 0, pattern |-> <<>>, emitted |-> <<>>,
   changes |-> changes]

InitZScan ==
  /\ now = 1
  /\ meta = [k \in Keys |-> NoMeta]
  /\ data = {}
  /\ score = {}
  /\ inflight = NoCall
  /\ zscan_cursors_store = EmptyCursors(AmpleSize)
  /\ client = Idle(0)
  /\ call_parity = 0
  /\ uncompacted = EmptyDB

\* the client has the reply r of its call
ClientAfter(r, pattern, emitted) ==
  [client EXCEPT !.state = IF r.next_cursor = 0 THEN "done" ELSE "scanning",
                 !.cursor = r.next_cursor,
                 !.pattern = pattern,
                 !.emitted = emitted \o r.ret]

\* the client starts an iteration at cursor 0
ZScanStart ==
  /\ client.state \in {"idle", "done"}
  /\ \E pattern \in ScanPatterns, count \in ScanCounts :
       LET r == ZScanStored(zscan_cursors_store, DB, now, KeyK, 0, pattern, count)
       IN /\ client' = ClientAfter(r, pattern, <<>>)
          /\ zscan_cursors_store' = r.store
  /\ call_parity' = (call_parity + 1) % 2
  /\ UNCHANGED <<now, meta, data, score, inflight, uncompacted>>

\* the client calls again with the cursor it was given
ZScanNext ==
  /\ client.state = "scanning"
  /\ \E count \in ScanCounts :
       LET r == ZScanStored(zscan_cursors_store, DB, now, KeyK, client.cursor,
                            client.pattern, count)
       IN /\ client' = ClientAfter(r, client.pattern, client.emitted)
          /\ zscan_cursors_store' = r.store
  /\ call_parity' = (call_parity + 1) % 2
  /\ UNCHANGED <<now, meta, data, score, inflight, uncompacted>>

\* a command changes the set: the iteration of the client is void
ZScanChange(res) ==
  LET db == Commit(DB, res)
  IN /\ client.changes < MaxChanges
     /\ db # DB
     /\ meta' = db.meta
     /\ data' = db.data
     /\ score' = db.score
     /\ client' = Idle(client.changes + 1)
     /\ UNCHANGED <<now, inflight, zscan_cursors_store, call_parity, uncompacted>>

ZScanZAddAll == ZScanChange(ZAdd(DB, now, KeyK, OneTwoThree))

ZScanZAdd == \E sms \in Singles : ZScanChange(ZAdd(DB, now, KeyK, sms))

ZScanZRem ==
  \E member \in Members3 : ZScanChange(ZRem(DB, now, KeyK, <<member>>))

NextZScan ==
  \/ ZScanStart
  \/ ZScanNext
  \/ ZScanZAddAll
  \/ ZScanZAdd
  \/ ZScanZRem

\* the scanning client makes its next call: the step that ZScanNext takes,
\* seen on the parity of the calls alone
NextCall == client.state = "scanning" /\ call_parity' = (call_parity + 1) % 2

\* a client in the middle of an iteration goes on calling
FairZScan == WF_call_parity(NextCall)

SpecZScan == InitZScan /\ [][NextZScan]_vars /\ FairZScan

(***************************************************************************)
(* C31: on an unchanged set and with no cursor entry evicted, a client     *)
(* that starts ZSCAN with cursor 0 and feeds each returned next_cursor     *)
(* into the next call with a count >= 1 receives next_cursor = 0 after     *)
(* finitely many calls, and across those calls every member matching the   *)
(* pattern is emitted exactly once with its current score.                 *)
(***************************************************************************)
\* the live pairs of key whose member matches pattern
MatchingPairs(key, pattern) ==
  {p \in LivePairs(DB, now, key) : StringMatch(pattern, p[1])}

\* the finished iteration emitted every matching member once, with its score
EmittedExactlyOnce ==
  client.state = "done" =>
    /\ PairsOf(client.emitted) = MatchingPairs(KeyK, client.pattern)
    /\ Len(client.emitted) = Cardinality(MatchingPairs(KeyK, client.pattern))

\* no entry has been evicted from the cursor store
NothingEvicted ==
  /\ Len(zscan_cursors_store.list_) <= zscan_cursors_store.max_size_
  /\ \A i \in 1..Len(zscan_cursors_store.list_) :
       MapHas(zscan_cursors_store.map_, zscan_cursors_store.list_[i])

\* C31: an iteration of ZSCAN over an unchanged set, with nothing evicted,
\* reaches next_cursor = 0 and has then emitted every matching member
\* exactly once with its current score
C31_ZScanIteration ==
  /\ [](NothingEvicted /\ EmittedExactlyOnce)
  /\ (client.state = "scanning") ~> (client.state \in {"done", "idle"})

\* the client has gone through a, b and c in three calls of count 1 after
\* an earlier change of the set
C31_Witness ==
  /\ client.state = "done"
  /\ client.changes > 1
  /\ client.pattern = StarPattern
  /\ Len(client.emitted) = Cardinality(Members3)
  /\ MapHas(zscan_cursors_store.map_, IndexKey(KeyK, StarPattern, 1))
  /\ MapHas(zscan_cursors_store.map_, IndexKey(KeyK, StarPattern, 2))

(***************************************************************************)
(* SpecZScanEvict: the client of SpecZScan with a cursor store of capacity *)
(* MaxSize, and other clients that start scans of key k of their own: the  *)
(* entries they store push the entries of the client out of the store.     *)
(* The set is empty at first and holds a, b and c after one ZADD.          *)
(***************************************************************************)
OtherPatterns == {MemberA, MemberB}

InitZScanEvict ==
  /\ now = 1
  /\ meta = [k \in Keys |-> NoMeta]
  /\ data = {}
  /\ score = {}
  /\ inflight = NoCall
  /\ zscan_cursors_store = EmptyCursors(MaxSize)
  /\ client = Idle(0)
  /\ call_parity = 0
  /\ uncompacted = EmptyDB

\* the client starts an iteration at cursor 0 and keeps its last reply only
EvictZScanStart ==
  /\ client.state \in {"idle", "done"}
  /\ \E pattern \in ScanPatterns, count \in ScanCounts :
       LET r == ZScanStored(zscan_cursors_store, DB, now, KeyK, 0, pattern, count)
       IN /\ client' = ClientAfter(r, pattern, <<>>)
          /\ zscan_cursors_store' = r.store
  /\ call_parity' = (call_parity + 1) % 2
  /\ UNCHANGED <<now, meta, data, score, inflight, uncompacted>>

\* the client calls again with the cursor it was given
EvictZScanNext ==
  /\ client.state = "scanning"
  /\ \E count \in ScanCounts :
       LET r == ZScanStored(zscan_cursors_store, DB, now, KeyK, client.cursor,
                            client.pattern, count)
       IN /\ client' = ClientAfter(r, client.pattern, <<>>)
          /\ zscan_cursors_store' = r.store
  /\ call_parity' = (call_parity + 1) % 2
  /\ UNCHANGED <<now, meta, data, score, inflight, uncompacted>>

\* another client starts a scan of key k
OtherZScan ==
  /\ \E pattern \in OtherPatterns, count \in ScanCounts :
       zscan_cursors_store' =
         ZScanStored(zscan_cursors_store, DB, now, KeyK, 0, pattern, count).store
  /\ UNCHANGED <<now, meta, data, score, inflight, client, call_parity,
                 uncompacted>>

NextZScanEvict ==
  \/ EvictZScanStart
  \/ EvictZScanNext
  \/ OtherZScan
  \/ ZScanZAddAll

SpecZScanEvict == InitZScanEvict /\ [][NextZScanEvict]_vars /\ FairZScan

\* C32: an iteration of ZSCAN whose cursor entries are evicted between the
\* calls still reaches next_cursor = 0 after finitely many calls
C32_ZScanTerminates ==
  (client.state = "scanning") ~> (client.state \in {"done", "idle"})

\* C39: the cursor store never holds more entries than its capacity, in its
\* list and in its map alike
C39_WithinCapacity ==
  /\ Len(zscan_cursors_store.list_) <= zscan_cursors_store.max_size_
  /\ Cardinality(zscan_cursors_store.map_) <= zscan_cursors_store.max_size_

(***************************************************************************)
(* C38: when one ZADD call lists the same member more than once, only the  *)
(* first occurrence takes effect: the stored score is the first one given  *)
(* for that member, and the member counts once in the return value and in  *)
(* meta.count.                                                             *)
(***************************************************************************)
\* the score of the first occurrence of member in sms
FirstScore(sms, member) ==
  LET first == CHOOSE i \in 1..Len(sms) :
                 /\ sms[i].member = member
                 /\ \A j \in 1..(i - 1) : sms[j].member # member
  IN sms[first].score

\* C38: a ZADD that lists a member more than once stores the first score
\* given for it and counts the member once in its return value and in
\* meta.count
C38_FirstOccurrence ==
  \A key \in Keys, sms \in ScoreMemberLists :
    ~DistinctMembers(sms) =>
      LET res == ZAdd(DB, now, key, sms)
          after == Commit(DB, res)
      IN /\ res.status = "OK"
         /\ \A m \in InputMembers(sms) :
              /\ ZScore(after, now, key, m) = Reply("OK", FirstScore(sms, m))
              /\ Cardinality({r \in DataRowsOf(after, key, after.meta[key].version) :
                                r[3] = m}) = 1
         /\ res.ret = Cardinality(InputMembers(sms) \ LiveMembers(DB, now, key))
         /\ after.meta[key].count = LiveCount(DB, now, key) + res.ret
         /\ after.meta[key].count =
              Cardinality(LiveMembers(DB, now, key) \cup InputMembers(sms))

\* a live set holding b is about to take a twice, at 2 first and at 1 then
C38_Witness ==
  /\ LiveMembers(DB, now, KeyK) = {MemberB}
  /\ ZAdd(DB, now, KeyK, <<[score |-> 2, member |-> MemberA],
                           [score |-> 1, member |-> MemberA]>>).ret = 1
  /\ ZScore(Commit(DB, ZAdd(DB, now, KeyK, <<[score |-> 2, member |-> MemberA],
                                             [score |-> 1, member |-> MemberA]>>)),
            now, KeyK, MemberA).ret = 2

(***************************************************************************)
(* C36: a set that becomes non-empty again through ZADD or ZINCRBY after   *)
(* it was logically empty (deleted, expired, or emptied by ZREM /          *)
(* a ZREMRANGEBY command) starts without an expiry: its meta timestamp is  *)
(* 0 and TTL returns -1 until EXPIRE or EXPIREAT is called on the new set, *)
(* whatever commands ran while it was empty.                               *)
(***************************************************************************)
\* the set of key in store after starts without an expiry
NoExpiry(after, key) ==
  /\ after.meta[key].timestamp = 0
  /\ TTL(after, now, key) = Reply("OK", -1)

\* C36: ZADD and ZINCRBY on a key that is absent, stale or empty leave a set
\* with timestamp 0 whose TTL is -1
C36_NewSetNoExpiry ==
  \A key \in Keys :
    ~IsLive(DB, now, key) =>
      /\ \A sms \in ScoreMemberLists :
           NoExpiry(Commit(DB, ZAdd(DB, now, key, sms)), key)
      /\ \A member \in Members, increment \in Increments :
           NoExpiry(Commit(DB, ZIncrby(DB, now, key, member, increment)), key)

(***************************************************************************)
(* SpecScan: one client iterates Scan over the key space.  It starts at    *)
(* the empty start key with a pattern, feeds each next_key into its next   *)
(* call and is done when is_finish is true; the count may differ from call *)
(* to call.  ZADD, ZREM, EXPIRE and the clock change the key space; a      *)
(* change makes the client give up its iteration and start again.          *)
(***************************************************************************)
\* the client before its first call and after a change of the key space
ScanIdle(changes) ==
  [state |-> "idle", next_key |-> <<>>, pattern |-> <<>>, emitted |-> <<>>,
   changes |-> changes]

InitScan ==
  /\ now = 1
  /\ meta = [k \in Keys |-> NoMeta]
  /\ data = {}
  /\ score = {}
  /\ inflight = NoCall
  /\ zscan_cursors_store = EmptyCursors(MaxSize)
  /\ client = ScanIdle(0)
  /\ call_parity = 0
  /\ uncompacted = EmptyDB

\* the client has the reply r of its call
ScanClientAfter(r, pattern, emitted) ==
  [client EXCEPT !.state = IF r.is_finish THEN "done" ELSE "scanning",
                 !.next_key = r.next_key,
                 !.pattern = pattern,
                 !.emitted = emitted \o r.keys]

\* the client starts an iteration at the empty start key
ScanStart ==
  /\ client.state \in {"idle", "done"}
  /\ \E pattern \in Patterns, count \in ScanCounts :
       client' = ScanClientAfter(Scan(DB, now, <<>>, pattern, count), pattern, <<>>)
  /\ call_parity' = (call_parity + 1) % 2
  /\ UNCHANGED <<now, meta, data, score, inflight, zscan_cursors_store,
                 uncompacted>>

\* the client calls again with the next_key it was given
ScanNext ==
  /\ client.state = "scanning"
  /\ \E count \in ScanCounts :
       client' = ScanClientAfter(Scan(DB, now, client.next_key, client.pattern, count),
                                 client.pattern, client.emitted)
  /\ call_parity' = (call_parity + 1) % 2
  /\ UNCHANGED <<now, meta, data, score, inflight, zscan_cursors_store,
                 uncompacted>>

\* a command changes the key space: the iteration of the client is void
ScanChange(res) ==
  LET db == Commit(DB, res)
  IN /\ client.changes < MaxChanges
     /\ db # DB
     /\ meta' = db.meta
     /\ data' = db.data
     /\ score' = db.score
     /\ client' = ScanIdle(client.changes + 1)
     /\ UNCHANGED <<now, inflight, zscan_cursors_store, call_parity, uncompacted>>

ScanZAdd ==
  \E key \in Keys :
    ScanChange(ZAdd(DB, now, key, <<[score |-> 1, member |-> MemberA]>>))

ScanZRem == \E key \in Keys : ScanChange(ZRem(DB, now, key, <<MemberA>>))

ScanExpire == \E key \in Keys : ScanChange(Expire(DB, now, key, 1))

\* the clock advances: sets may expire, and the client starts again
ScanTick ==
  /\ now < MaxTime
  /\ now' = now + 1
  /\ client' = ScanIdle(client.changes)
  /\ UNCHANGED <<meta, data, score, inflight, zscan_cursors_store, call_parity,
                 uncompacted>>

NextScan ==
  \/ ScanStart
  \/ ScanNext
  \/ ScanZAdd
  \/ ScanZRem
  \/ ScanExpire
  \/ ScanTick

SpecScan == InitScan /\ [][NextScan]_vars /\ FairZScan

(***************************************************************************)
(* C37: on an unchanged key space, a client that starts Scan at the empty  *)
(* start key and feeds each returned next_key into the next call with      *)
(* count >= 1 gets is_finish = true after finitely many calls, and across  *)
(* those calls every live key matching the pattern is emitted exactly      *)
(* once; is_finish is true exactly when the iterator was exhausted.        *)
(***************************************************************************)
\* the number of times key was emitted
TimesEmitted(emitted, key) ==
  Cardinality({i \in 1..Len(emitted) : emitted[i] = key})

\* the finished iteration emitted every live matching key once, and no key
\* twice
ScanEmittedOnce ==
  client.state = "done" =>
    /\ \A key \in Keys :
         (IsLive(DB, now, key) /\ StringMatch(client.pattern, key)) =>
           TimesEmitted(client.emitted, key) = 1
    /\ \A key \in Keys : TimesEmitted(client.emitted, key) <= 1

\* the meta rows from start_key on that are not stale
FreshFrom(start_key) ==
  {key \in Keys : /\ HasMeta(DB, key)
                  /\ BytesCompare(key, start_key) >= 0
                  /\ ~IsStale(GetMeta(DB, key), now)}

\* a meta row lies behind every row of S
RowBehind(start_key, S) ==
  \E key \in Keys : /\ HasMeta(DB, key)
                    /\ BytesCompare(key, start_key) >= 0
                    /\ \A o \in S : BytesCompare(key, o) > 0

\* is_finish tells that the iterator ran off the end of the meta family:
\* fewer than count rows that are not stale, or count of them and no row
\* behind the last; next_key is then empty, and else the key of a row
ScanFinishIsExhausted ==
  \A start_key \in StartKeys, pattern \in Patterns, count \in ScanCounts :
    LET r == Scan(DB, now, start_key, pattern, count)
        fresh == FreshFrom(start_key)
    IN /\ r.is_finish <=>
            \/ Cardinality(fresh) < count
            \/ Cardinality(fresh) = count /\ ~RowBehind(start_key, fresh)
       /\ r.is_finish => r.next_key = <<>>
       /\ ~r.is_finish => r.next_key \in Keys /\ HasMeta(DB, r.next_key)

\* C37: an iteration of Scan over an unchanged key space reaches is_finish
\* and has then emitted every live matching key exactly once; is_finish is
\* true exactly when the iterator was exhausted
C37_ScanIteration ==
  /\ [](ScanEmittedOnce /\ ScanFinishIsExhausted)
  /\ (client.state = "scanning") ~> (client.state \in {"done", "idle"})

\* the client has gone through the two live keys in two calls of count 1
C37_Witness ==
  /\ client.state = "done"
  /\ client.pattern = StarPattern
  /\ client.emitted = <<KeyK, KeyL>>
  /\ IsLive(DB, now, KeyK) /\ IsLive(DB, now, KeyL)
  /\ call_parity = 0

(***************************************************************************)
(* The compaction filters.  A filter tells whether compaction drops the    *)
(* row it is shown; it looks the key of a Data or Score row up in the meta *)
(* family as it is at that moment.                                         *)
(***************************************************************************)
\* the meta filter: a stale meta row goes
MetaFilter(db, t, key) == HasMeta(db, key) /\ IsStale(GetMeta(db, key), t)

\* the data and score filters: a row goes when its key has no meta row, a
\* stale one, or one of another version
RowFilter(db, t, key, version) ==
  \/ ~HasMeta(db, key)
  \/ IsStale(GetMeta(db, key), t)
  \/ GetMeta(db, key).version # version

(***************************************************************************)
(* SpecCompact: commands on key k run against the store and, with the same *)
(* arguments at the same clock, against a second store that is never       *)
(* compacted; between the commands compaction shows single rows of the     *)
(* store to the filters, in any order.                                     *)
(***************************************************************************)
CompactInputs ==
  {<<[score |-> 1, member |-> MemberA]>>, <<[score |-> 2, member |-> MemberB]>>}

\* a command returns res on the store and plain on the store without
\* compaction
CompactStep(res, plain) ==
  LET db == Commit(DB, res)
      kept == Commit(uncompacted, plain)
  IN /\ Bounded(db)
     /\ \A k \in Keys : kept.meta[k].version <= MaxVersion + 1
     /\ meta' = db.meta
     /\ data' = db.data
     /\ score' = db.score
     /\ uncompacted' = kept
     /\ UNCHANGED <<now, inflight, zscan_cursors_store, client, call_parity>>

CompactZAdd ==
  \E sms \in CompactInputs :
    CompactStep(ZAdd(DB, now, KeyK, sms), ZAdd(uncompacted, now, KeyK, sms))

CompactZRem ==
  CompactStep(ZRem(DB, now, KeyK, <<MemberA>>),
              ZRem(uncompacted, now, KeyK, <<MemberA>>))

CompactDel == CompactStep(Del(DB, now, KeyK), Del(uncompacted, now, KeyK))

CompactExpire ==
  \E ttl \in Ttls :
    CompactStep(Expire(DB, now, KeyK, ttl), Expire(uncompacted, now, KeyK, ttl))

CompactTick ==
  /\ now < MaxTime
  /\ now' = now + 1
  /\ UNCHANGED <<meta, data, score, inflight>>
  /\ UNCHANGED scan_vars

\* compaction of the meta family reaches the row of key
DropMeta ==
  \E key \in Keys :
    /\ MetaFilter(DB, now, key)
    /\ meta' = [meta EXCEPT ![key] = NoMeta]
    /\ UNCHANGED <<now, data, score, inflight>>
    /\ UNCHANGED scan_vars

\* compaction of the data family reaches row
DropData ==
  \E row \in data :
    /\ RowFilter(DB, now, row[1], row[2])
    /\ data' = data \ {row}
    /\ UNCHANGED <<now, meta, score, inflight>>
    /\ UNCHANGED scan_vars

\* compaction of the score family reaches row
DropScore ==
  \E row \in score :
    /\ RowFilter(DB, now, row[1], row[2])
    /\ score' = score \ {row}
    /\ UNCHANGED <<now, meta, data, inflight>>
    /\ UNCHANGED scan_vars

NextCompact ==
  \/ CompactTick
  \/ CompactZAdd
  \/ CompactZRem
  \/ CompactDel
  \/ CompactExpire
  \/ DropMeta
  \/ DropData
  \/ DropScore

SpecCompact == Init /\ [][NextCompact]_vars

(***************************************************************************)
(* C33: compaction never removes live data: for any interleaving of        *)
(* compaction-filter decisions with commands, a Data or Score row is       *)
(* dropped only if its key's meta is absent, stale or at a different       *)
(* version, and a meta row only if it is stale, so every read returns the  *)
(* same result as in the same run without compaction.                      *)
(***************************************************************************)
\* C33: the reads of the compacted store return what they return on the
\* store of the same run without compaction
C33_ReadsAgree ==
  \A key \in Keys :
    /\ ZCard(DB, now, key) = ZCard(uncompacted, now, key)
    /\ TTL(DB, now, key) = TTL(uncompacted, now, key)
    /\ ZRange(DB, now, key, 0, -1) = ZRange(uncompacted, now, key, 0, -1)
    /\ \A member \in Members :
         /\ ZScore(DB, now, key, member) = ZScore(uncompacted, now, key, member)
         /\ ZRank(DB, now, key, member) = ZRank(uncompacted, now, key, member)

(***************************************************************************)
(* C35: after a key's stale meta row has been reclaimed by compaction      *)
(* while Data/Score rows of its earlier versions still linger, a later     *)
(* ZADD, ZINCRBY, ZUNIONSTORE or ZINTERSTORE that creates the key again    *)
(* gets a version different from the version of every lingering row, so no *)
(* earlier member becomes visible and meta.count equals the number of rows *)
(* under the new version.                                                  *)
(***************************************************************************)
\* the meta row of key is gone and rows of the key are still there
Reclaimed(key) ==
  /\ ~HasMeta(DB, key)
  /\ \/ \E r \in data : r[1] = key
     \/ \E r \in score : r[1] = key

\* the commands that create key again
Creations(key) ==
  {ZAdd(DB, now, key, sms) : sms \in ScoreMemberLists}
    \cup {ZIncrby(DB, now, key, member, increment) :
            member \in Members, increment \in Increments}
    \cup {ZUnionstore(DB, now, key, keys, <<>>, "SUM") : keys \in KeyLists}
    \cup {ZInterstore(DB, now, key, keys, <<>>, "SUM") : keys \in KeyLists \ {<<>>}}

\* C35: a command that creates a reclaimed key again gives it a version
\* that no lingering row has, and the count of the rows under that version
C35_FreshVersion ==
  \A key \in Keys :
    Reclaimed(key) =>
      \A res \in Creations(key) :
        LET after == Commit(DB, res)
            version == after.meta[key].version
        IN res.written =>
             /\ \A r \in data : r[1] = key => r[2] # version
             /\ \A r \in score : r[1] = key => r[2] # version
             /\ after.meta[key].count =
                  Cardinality(DataRowsOf(after, key, version))
             /\ after.meta[key].count =
                  Cardinality(ScoreRowsOf(after, key, version))

(***************************************************************************)
(* Reads that fail.  failing is the set of keys whose meta Get returns an  *)
(* error that is not NotFound, failing_members the members whose Data Get  *)
(* does; the commands are those of above with the branches the source      *)
(* takes on such a status.                                                 *)
(***************************************************************************)
IOError == Result(<<>>, FALSE, "IOError", 0)

\* the store as a command sees it that took the failed Get of the meta row
\* of key for a missing row
TakenForMissing(db, key) == [db EXCEPT !.meta[key] = NoMeta]

ZAddFailing(db, t, key, score_members, failing, failing_members) ==
  IF key \in failing THEN IOError
  ELSE IF /\ HasMeta(db, key)
          /\ ~IsStale(GetMeta(db, key), t)
          /\ \E i \in 1..Len(score_members) :
               score_members[i].member \in failing_members
  THEN IOError
  ELSE ZAdd(db, t, key, score_members)

ZUnionstoreFailing(db, t, destination, keys, weights, agg, failing) ==
  IF \E idx \in 1..Len(keys) : keys[idx] \in failing THEN IOError
  ELSE IF destination \in failing
  THEN ZUnionstore(TakenForMissing(db, destination), t, destination, keys,
                   weights, agg)
  ELSE ZUnionstore(db, t, destination, keys, weights, agg)

ZInterstoreFailing(db, t, destination, keys, weights, agg, failing) ==
  IF Len(keys) <= 0 THEN ZInterstore(db, t, destination, keys, weights, agg)
  ELSE IF \E idx \in 1..Len(keys) : keys[idx] \in failing THEN IOError
  ELSE IF destination \in failing
  THEN ZInterstore(TakenForMissing(db, destination), t, destination, keys,
                   weights, agg)
  ELSE ZInterstore(db, t, destination, keys, weights, agg)

(***************************************************************************)
(* C34: if a read of the underlying store fails with an error other than   *)
(* NotFound during any command (the destination meta read of ZUNIONSTORE   *)
(* and ZINTERSTORE included), the command returns that error unchanged and *)
(* writes nothing to any column family.                                    *)
(***************************************************************************)
\* the command returned the error of the read and wrote nothing
ReturnsError(res) == res.status = "IOError" /\ ~res.written /\ res.batch = <<>>

\* ZADD returns the error of its meta read and of its Data reads
C34_ZAddErrors ==
  \A key \in Keys, sms \in ScoreMemberLists :
    /\ ReturnsError(ZAddFailing(DB, now, key, sms, {key}, {}))
    /\ HasFreshMeta(key) =>
         \A i \in 1..Len(sms) :
           ReturnsError(ZAddFailing(DB, now, key, sms, {}, {sms[i].member}))

\* C34: ZADD, ZUNIONSTORE and ZINTERSTORE return the error of a failed read
\* of a meta row, that of the destination included, and write nothing
C34_ErrorsReturned ==
  /\ C34_ZAddErrors
  /\ \A destination \in Keys, failed \in Keys, keys \in KeyLists :
       (failed = destination \/ \E idx \in 1..Len(keys) : keys[idx] = failed) =>
         /\ ReturnsError(ZUnionstoreFailing(DB, now, destination, keys, <<>>,
                                            "SUM", {failed}))
         /\ Len(keys) > 0 =>
              ReturnsError(ZInterstoreFailing(DB, now, destination, keys, <<>>,
                                              "SUM", {failed}))

====
